---- MODULE Spec2Model ----
(***************************************************************************)
(* Job control of the tish shell: the Job Table (src/src/jobs.rs), the     *)
(* signal coordinator (src/src/shell/signals.rs) and the execution paths   *)
(* of src/src/command.rs, over a small model of the operating system's     *)
(* processes, process groups and controlling terminal.                     *)
(*                                                                         *)
(* Two specifications share the state:                                     *)
(*   SpecJM  the JobManager called directly, in any order, with any input; *)
(*   Spec    the shell: the interactive loop, the background tasks and the *)
(*           three signal handlers, interleaved.                           *)
(***************************************************************************)
EXTENDS Integers, Sequences, FiniteSets, TLC

\* ------------------------------------------------------------------ bounds
\* Process ids the operating system hands out (and reuses once a process is gone).
MaxPid == 2
\* Successful add_job calls in one session.
MaxJobs == 3
\* Background commands (`prog &`) typed in one session of the shell.
MaxBg == 2
\* Statements the interactive loop executes in one session.
MaxLines == 3
\* Signals delivered to the shell in one session.
MaxSignals == 2
\* Segments between `&&` in one input line.
MaxStmts == 3
\* TypedWords (separated by single blanks) in one statement handed to the parser.
MaxToks == 4
\* Characters of a line handed to a Tokenizer on its own.
MaxChars == 7

\* ------------------------------------------------------- program constants
\* CURRENT_FOREGROUND_PID when no job is in the foreground.
NoForeground == -1
\* Option::None of a pid or of a job id (both are >= 1 when present).
NoPid == 0

Pids == 1..MaxPid
\* The shell's own process group (TishShell::new makes the shell a group leader).
ShellPgid == MaxPid + 1
Progs == {"sleep", "cat"}
FgProgs == {"vim"}

VARIABLES
    procs,          \* OS: pid -> "none" | "run" | "stop" | "zomb"
    pgid,           \* OS: pid -> process group of the process
    tty,            \* OS: process group that owns the controlling terminal
    jobs,           \* JobManager.jobs: pid -> Job (a function on the tracked pids)
    job_counter,    \* JobManager.job_counter
    issued,         \* history: the ids add_job has assigned, in call order
    last,           \* history (SpecJM): the last JobManager call and what it returned
    fgPid,          \* CURRENT_FOREGROUND_PID
    info,           \* SignalHandler.foreground_info: NoInfo or the program
    infoLock,       \* the mutex of foreground_info: "free" | "main"
    jobsLock,       \* the mutex of JOBS: "free" | "task"
    pc,             \* where the interactive loop (the main thread) is
    cur,            \* the statement the main thread executes
    ret,            \* what the last statement returned to execute_command
    hpc,            \* where the running signal handler is ("idle": none runs)
    hthread,        \* the thread the handler interrupted: "main" | "worker"
    hpid,           \* the pid the handler loaded from CURRENT_FOREGROUND_PID
    tasks,          \* the background tasks, by the order their commands were typed
    printed,        \* the `[id] pid` line the last background registration printed
    nlines,         \* statements executed so far (bounded by MaxLines)
    nsig,           \* signals delivered to the shell so far (bounded by MaxSignals)
    evlog,          \* history: the terminal and process-group events of the
                    \* foreground invocation in flight, first occurrences in order
    line,           \* execute_command: the segments of the input line between `&&`
    commands,       \* execute_command: the statements TishCommand::parse returned
    exit_code,      \* execute_command: the exit code accumulated so far
    lpc,            \* execute_command: "idle" | "loop" | "done"
    ran,            \* history: the segments executed so far, by position in the line
    stmt,           \* the line last handed to execute_command (its characters)
    chain,          \* the chains TishCommand::parse returned for it, in order
    xpc,            \* its execution: "idle" | "loop" | "done" | "panicked"
    xi,             \* the number of its statements executed so far
    status,         \* the ExitCode execute_command holds (as the u8 inside)
    spawned,        \* history: the processes execute spawned for the line
    aliases,        \* ALIASES: the set of <<name, value>> entries, one per name
    rest_words,     \* alias.rs resolve_command: `words` once the first is removed
    current_command,    \* resolve_alias_recursively: the name looked up next
    seen_aliases,       \* resolve_alias_recursively: the names looked up so far
    accumulated_args,   \* resolve_alias_recursively: the arguments collected
    apc,            \* resolve_alias_recursively: "idle" | "loop" | "done"
    resolved,       \* resolve_alias_recursively: the string returned
    tline,          \* the line Tokenizer::new was called with (its characters)
    tokenizer,      \* the Tokenizer: `current` (some tells Some from None)
    yielded,        \* history: the words next() returned Some for, in order
    got_args,       \* get_args: the `args` vector
    peeked,         \* what peek() returned on the tokenizer as it is now, if called
    tpc             \* get_args: "idle" | "loop" | "none" | "break"

osVars == <<procs, pgid, tty>>
jmVars == <<jobs, job_counter>>
histVars == <<issued, last>>
sigVars == <<fgPid, info, infoLock>>
mainVars == <<pc, cur, ret, nlines>>
hVars == <<hpc, hthread, hpid, nsig>>
taskVars == <<tasks, printed>>
shellVars == <<fgPid, info, infoLock, jobsLock, pc, cur, ret, hpc, hthread, hpid,
               tasks, printed, nlines, nsig, evlog>>
lineVars == <<line, commands, exit_code, lpc, ran>>
parseVars == <<stmt, chain, xpc, xi, status, spawned>>
aliasVars == <<aliases, rest_words, current_command, seen_aliases, accumulated_args, apc, resolved>>
tokVars == <<tline, tokenizer, yielded, got_args, peeked, tpc>>
cmdVars == <<stmt, chain, xpc, xi, status, spawned, aliases, rest_words,
             current_command, seen_aliases, accumulated_args, apc, resolved,
             tline, tokenizer, yielded, got_args, peeked, tpc>>
vars == <<procs, pgid, tty, jobs, job_counter, issued, last, fgPid, info, infoLock,
          jobsLock, pc, cur, ret, hpc, hthread, hpid, tasks, printed, nlines, nsig,
          evlog, line, commands, exit_code, lpc, ran, stmt, chain, xpc, xi, status,
          spawned, aliases, rest_words, current_command, seen_aliases,
          accumulated_args, apc, resolved, tline, tokenizer, yielded, got_args,
          peeked, tpc>>

\* Option::None of a parsed chain, and the outcome of a parse that panicked.
NoChain == [kind |-> "none"]
Panicked == [kind |-> "panic"]

NoInfo == "none"
NoCmd == [kind |-> "none", prog |-> "", words |-> <<>>, child |-> NoPid]

\* `tick` flips at every call, so that a step that is a call shows as a change of `last`.
\* `sig` holds the results of the signals a remove_job call sent (else it is empty).
NoCall ==
    [op |-> "none", arg |-> NoPid, pid |-> NoPid, ok |-> TRUE, tick |-> FALSE,
     sig |-> <<>>]
Call(op, arg, pid, ok) ==
    [op |-> op, arg |-> arg, pid |-> pid, ok |-> ok, tick |-> ~last.tick, sig |-> <<>>]

\* --------------------------------------------------------- operating system
\* A process exists (kill(pid, 0) succeeds) until it has been reaped.
Exists(p) == p \in Pids /\ procs[p] # "none"
\* Process group g has a member: kill(-g, sig) and tcsetpgrp(0, g) need one.
GroupExists(g) == \E p \in Pids : procs[p] # "none" /\ pgid[p] = g
\* A pid the OS may give to a new process.
FreePids == {p \in Pids : procs[p] = "none"}

\* ------------------------------------------------------------- JobManager
NewJob(id, pid, cmd, args) ==
    [id |-> id, pid |-> pid, status |-> "Running", command |-> cmd, args |-> args]

\* add_job, after a successful spawn that reported `pid`: HashMap::insert under the pid.
InsertJob(js, ctr, pid, cmd, args) ==
    [p \in (DOMAIN js) \cup {pid} |->
        IF p = pid THEN NewJob(ctr, pid, cmd, args) ELSE js[p]]

\* The id add_job gives to the job it inserts: fetch_add returns the old value.
NextIdBuggy(js, ctr) == Cardinality(DOMAIN js) + 1
NextId(js, ctr) == ctr

ContainsPid(js, pid) == pid \in DOMAIN js

GetJobById(js, id) ==
    IF \E p \in DOMAIN js : js[p].id = id
    THEN CHOOSE p \in DOMAIN js : js[p].id = id
    ELSE NoPid

SuspendedPids(js) == {p \in DOMAIN js : js[p].status = "Suspended"}

GetLastSuspendedBuggy(js) ==
    IF SuspendedPids(js) = {} THEN NoPid
    ELSE CHOOSE p \in SuspendedPids(js) :
            \A q \in SuspendedPids(js) : js[q].id >= js[p].id
GetLastSuspended(js) ==
    IF SuspendedPids(js) = {} THEN NoPid
    ELSE CHOOSE p \in SuspendedPids(js) :
            \A q \in SuspendedPids(js) : js[q].id <= js[p].id

SuspendJob(js, pid) ==
    IF pid \in DOMAIN js THEN [js EXCEPT ![pid].status = "Suspended"] ELSE js

\* resume_job: the pid it returns (NoPid for None) ...
ResumeTarget(js, job_id) ==
    IF job_id # NoPid THEN GetJobById(js, job_id) ELSE GetLastSuspended(js)
\* ... and the table it leaves.
ResumeJob(js, job_id) ==
    LET pid == ResumeTarget(js, job_id) IN
    IF pid # NoPid /\ pid \in DOMAIN js
    THEN [js EXCEPT ![pid].status = "Running"] ELSE js

\* remove_job once the signals are sent: `job.status = JobStatus::Completed(0)`, then
\* `self.jobs.remove(&pid)`.
CompleteJob(js, pid) == [js EXCEPT ![pid].status = "Completed"]
DropJobBuggy(js, pid) == js
DropJob(js, pid) == [p \in (DOMAIN js) \ {pid} |-> js[p]]
RemoveEntry(js, pid) == DropJob(CompleteJob(js, pid), pid)

\* The errno values kill(pid, SIGTERM) / kill(pid, SIGKILL) can produce for `pid`:
\* ESRCH when no such process exists, else success or EPERM (a child that runs
\* with another user's credentials).
KillErrnos(pid) == IF Exists(pid) THEN {"OK", "EPERM"} ELSE {"ESRCH"}

\* remove_job's verdict for the two signals' results: SIGTERM delivered, or no such
\* process, or else SIGKILL delivered.
RemoveOkBuggy(termErr, killErr) == termErr = "OK" \/ killErr = "OK"
RemoveOk(termErr, killErr) == termErr \in {"OK", "ESRCH"} \/ killErr = "OK"

\* What the signals remove_job sent do to the process table: SIGTERM ends a running
\* process unless it handles the signal (`survives`); SIGKILL ends it in any case.
AfterRemoveSignals(pid, termErr, killErr, survives) ==
    IF ~Exists(pid) THEN procs
    ELSE IF termErr = "OK"
         THEN (IF procs[pid] = "run" /\ ~survives
               THEN [procs EXCEPT ![pid] = "zomb"] ELSE procs)
    ELSE IF killErr = "OK" /\ procs[pid] \in {"run", "stop"}
         THEN [procs EXCEPT ![pid] = "zomb"]
    ELSE procs

\* list_jobs: the jobs whose zero-signal probe fails are scheduled for removal,
\* in the Running arm and in the Suspended arm of the match alike.
CompletedPidsBuggy(js) == {p \in DOMAIN js : ~Exists(p) /\ js[p].status = "Running"}
CompletedPids(js) == {p \in DOMAIN js : ~Exists(p)}
\* The removal pass: remove_job on each scheduled pid. The probe and the SIGTERM of the
\* same call see the same process table, so each kill reports ESRCH and the entry goes.
RECURSIVE RemoveAll(_, _)
RemoveAll(js, pids) ==
    IF pids = {} THEN js
    ELSE RemoveAll(RemoveEntry(js, CHOOSE p \in pids : TRUE),
                   pids \ {CHOOSE p \in pids : TRUE})
\* The listing loop returns at once, before any removal, when it meets a job
\* whose status is Completed.
ListReturnsEarly(js) == \E p \in DOMAIN js : js[p].status = "Completed"
ListJobsBuggy(js) ==
    IF ListReturnsEarly(js) THEN js
    ELSE RemoveAll(js, {p \in DOMAIN js : procs[p] # "run"})
ListJobs(js) == IF ListReturnsEarly(js) THEN js ELSE RemoveAll(js, CompletedPids(js))

\* ------------------------------------------------------------------- Init
Init ==
    /\ procs = [p \in Pids |-> "none"]
    /\ pgid = [p \in Pids |-> ShellPgid]
    /\ tty = ShellPgid
    /\ jobs = <<>>
    /\ job_counter = 1
    /\ issued = <<>>
    /\ last = NoCall
    /\ fgPid = NoForeground
    /\ info = NoInfo
    /\ infoLock = "free"
    /\ jobsLock = "free"
    /\ pc = "prompt"
    /\ cur = NoCmd
    /\ ret = "none"
    /\ hpc = "idle"
    /\ hthread = "main"
    /\ hpid = NoForeground
    /\ tasks = [n \in 1..MaxBg |-> "unissued"]
    /\ printed = [id |-> NoPid, pid |-> NoPid]
    /\ nlines = 0
    /\ nsig = 0
    /\ evlog = <<>>
    /\ line = <<>>
    /\ commands = <<>>
    /\ exit_code = "SUCCESS"
    /\ lpc = "idle"
    /\ ran = <<>>
    /\ stmt = <<>>
    /\ chain = <<>>
    /\ xpc = "idle"
    /\ xi = 0
    /\ status = 0
    /\ spawned = <<>>
    /\ aliases = {}
    /\ rest_words = <<>>
    /\ current_command = <<>>
    /\ seen_aliases = {}
    /\ accumulated_args = <<>>
    /\ apc = "idle"
    /\ resolved = <<>>
    /\ tline = <<>>
    /\ tokenizer = [some |-> FALSE, current |-> <<>>, has_redirection |-> FALSE]
    /\ yielded = <<>>
    /\ got_args = <<>>
    /\ peeked = [some |-> FALSE]
    /\ tpc = "idle"

\* ------------------------------------------------ environment (both specs)
\* A running or stopped process ends (exit, or a signal from outside the shell).
ProcExit(p) ==
    /\ procs[p] \in {"run", "stop"}
    /\ procs' = [procs EXCEPT ![p] = "zomb"]
    /\ UNCHANGED <<pgid, tty, jmVars, histVars, shellVars>>

\* A process is stopped from outside the shell (kill -STOP, or the terminal's stop
\* key reaching the process itself).
ProcStop(p) ==
    /\ procs[p] = "run"
    /\ procs' = [procs EXCEPT ![p] = "stop"]
    /\ UNCHANGED <<pgid, tty, jmVars, histVars, shellVars>>

\* The main thread is inside spawn_foreground_job, after the spawn: it owns the Child
\* of cur.child and waits on it.
WaitingPcs == {"fg_tcset", "fg_store", "sfp_store", "sfp_lock", "sfp_write", "fg_wait"}

\* A child that ended and that nothing waits on (a background child, or a foreground
\* child whose Child was dropped) is reaped by the runtime: its pid is free again.
ProcReap(p) ==
    /\ procs[p] = "zomb"
    /\ ~(pc \in WaitingPcs /\ cur.child = p)
    /\ procs' = [procs EXCEPT ![p] = "none"]
    /\ pgid' = [pgid EXCEPT ![p] = ShellPgid]
    /\ UNCHANGED <<tty, jmVars, histVars, shellVars>>

\* ---------------------------------------------- JobManager called directly
\* add_job: the spawn fails, or the child reports no pid, or the job is inserted.
JM_add(outcome, pid, cmd, args) ==
    /\ job_counter <= MaxJobs
    /\ pid \in FreePids
    /\ CASE outcome = "spawn_err" ->
              /\ last' = Call("add", NoPid, NoPid, FALSE)
              /\ UNCHANGED <<osVars, jmVars, issued, shellVars>>
         [] outcome = "no_pid" ->
              /\ procs' = [procs EXCEPT ![pid] = "run"]
              /\ pgid' = [pgid EXCEPT ![pid] = ShellPgid]
              /\ last' = Call("add", NoPid, NoPid, FALSE)
              /\ UNCHANGED <<tty, jmVars, issued, shellVars>>
         [] outcome = "ok" ->
              /\ procs' = [procs EXCEPT ![pid] = "run"]
              /\ pgid' = [pgid EXCEPT ![pid] = ShellPgid]
              /\ jobs' = InsertJob(jobs, NextId(jobs, job_counter), pid, cmd, args)
              /\ job_counter' = job_counter + 1
              /\ issued' = Append(issued, NextId(jobs, job_counter))
              /\ last' = Call("add", NoPid, pid, TRUE)
              /\ UNCHANGED <<tty, shellVars>>

JM_suspend(pid) ==
    /\ jobs' = SuspendJob(jobs, pid)
    /\ last' = Call("suspend", pid, NoPid, TRUE)
    /\ UNCHANGED <<osVars, job_counter, issued, shellVars>>

JM_resume(job_id) ==
    /\ jobs' = ResumeJob(jobs, job_id)
    /\ last' = Call("resume", job_id, ResumeTarget(jobs, job_id), TRUE)
    /\ UNCHANGED <<osVars, job_counter, issued, shellVars>>

JM_remove(pid, termErr, killErr, survives) ==
    /\ termErr \in KillErrnos(pid)
    /\ killErr \in KillErrnos(pid)
    /\ IF ~ContainsPid(jobs, pid)
       THEN /\ last' = Call("remove", pid, NoPid, FALSE)
            /\ UNCHANGED <<osVars, jmVars, issued, shellVars>>
       ELSE /\ procs' = AfterRemoveSignals(pid, termErr, killErr, survives)
            /\ jobs' = IF RemoveOk(termErr, killErr) THEN RemoveEntry(jobs, pid)
                        ELSE jobs
            /\ last' = [Call("remove", pid, NoPid, RemoveOk(termErr, killErr))
                          EXCEPT !.sig = <<termErr, killErr>>]
            /\ UNCHANGED <<pgid, tty, job_counter, issued, shellVars>>

JM_list ==
    /\ jobs' = ListJobs(jobs)
    /\ last' = Call("list", Cardinality(CompletedPids(jobs)), NoPid, TRUE)
    /\ UNCHANGED <<osVars, job_counter, issued, shellVars>>

NextJM ==
    /\ UNCHANGED <<lineVars, cmdVars>>
    /\  \/ \E o \in {"spawn_err", "no_pid", "ok"}, p \in Pids, c \in Progs :
              JM_add(o, p, c, <<>>)
        \/ \E p \in Pids : JM_suspend(p)
        \/ \E i \in 0..MaxJobs : JM_resume(i)
        \/ \E p \in Pids, t \in {"OK", "EPERM", "ESRCH"}, k \in {"OK", "EPERM", "ESRCH"},
              s \in BOOLEAN : JM_remove(p, t, k, s)
        \/ JM_list
        \/ \E p \in Pids : ProcExit(p)
        \/ \E p \in Pids : ProcStop(p)
        \/ \E p \in Pids : ProcReap(p)

SpecJM == Init /\ [][NextJM]_vars

\* ------------------------------------------------------------------ shell
\* The main thread is inside spawn_foreground_job, after the spawn.
FgPcs == {"fg_tcset", "fg_store", "sfp_store", "sfp_lock", "sfp_write", "fg_wait",
          "fg_reclaim", "fg_clear", "cfp_store", "cfp_lock", "cfp_write"}
InFg == pc \in FgPcs
\* A handler that interrupted the main thread keeps it from running until it returns.
MainRuns == ~(hpc # "idle" /\ hthread = "main")

Range(q) == {q[i] : i \in 1..Len(q)}
Log(e) == IF e \in Range(evlog) THEN evlog ELSE Append(evlog, e)

\* kill(-g, sig) on the members of process group g, all with default dispositions.
SignalGroupBuggy(g, sig) ==
    [q \in Pids |->
        IF procs[q] = "none" THEN procs[q]
        ELSE IF sig = "SIGTSTP" /\ procs[q] = "run" THEN "stop"
        ELSE IF sig = "SIGINT" /\ procs[q] = "run" THEN "zomb"
        ELSE IF sig = "SIGCONT" /\ procs[q] = "stop" THEN "run"
        ELSE procs[q]]
SignalGroup(g, sig) ==
    [q \in Pids |->
        IF procs[q] = "none" \/ pgid[q] # g THEN procs[q]
        ELSE IF sig = "SIGTSTP" /\ procs[q] = "run" THEN "stop"
        ELSE IF sig = "SIGINT" /\ procs[q] = "run" THEN "zomb"
        ELSE IF sig = "SIGCONT" /\ procs[q] = "stop" THEN "run"
        ELSE procs[q]]

\* str::parse::<usize> on one word of the line: the number, or NoPid for Err.
Digits == <<"1", "2", "3", "4", "5", "6", "7", "8", "9">>
ParseUsize(w) ==
    IF \E i \in 1..Len(Digits) : Digits[i] = w
    THEN CHOOSE i \in 1..Len(Digits) : Digits[i] = w
    ELSE NoPid

\* TishCommand.args of a parsed line: the words after the program.
ArgsOf(words) == Tail(words)
\* handle_builtin_fg's job_id: self.args.get(1), parsed (Rust indexes from 0).
FgJobId(words) ==
    IF Len(ArgsOf(words)) >= 2 THEN ParseUsize(ArgsOf(words)[2]) ELSE NoPid
\* execute's dispatch reaches handle_builtin_fg for `fg ...` and for `tish fg [x]`.
IsFgLine(words) ==
    \/ words[1] = "fg"
    \/ words[1] = "tish" /\ Len(ArgsOf(words)) \in 1..2 /\ ArgsOf(words)[1] = "fg"

Cmd(kind, words, child) ==
    [kind |-> kind, prog |-> words[1], words |-> words, child |-> child]

\* The interactive loop has read a line and starts on a statement of it.
ReadsLine ==
    /\ pc = "prompt" /\ MainRuns
    /\ nlines < MaxLines
    /\ nlines' = nlines + 1

\* The variables no step of the main thread inside a statement changes.
mainFrame == <<job_counter, issued, last, hpc, hthread, hpid, nsig, tasks, printed,
               jobsLock, nlines>>
\* The variables no step of a handler changes.
handlerFrame == <<pgid, job_counter, issued, last, info, infoLock, jobsLock, pc, cur,
                  ret, nlines, hthread, hpid, nsig, tasks, printed>>

\* --- the foreground path: spawn_foreground_job
ReadFgBuggy(prog, ok, p) ==
    /\ ReadsLine
    /\ IF ok
       THEN /\ p \in FreePids
            /\ procs' = [procs EXCEPT ![p] = "run"]
            /\ pgid' = [pgid EXCEPT ![p] = p]
            /\ cur' = Cmd("fg", <<prog>>, p)
            /\ pc' = "fg_tcset"
            /\ ret' = "none"
            /\ evlog' = <<"setpgid", "sigdfl", "exec">>
            /\ UNCHANGED fgPid
       ELSE /\ cur' = Cmd("fg", <<prog>>, NoPid)
            /\ pc' = "returned"
            /\ ret' = "err_spawn"
            /\ fgPid' = NoPid
            /\ UNCHANGED <<procs, pgid, evlog>>
    /\ UNCHANGED <<tty, jobs, job_counter, issued, last, info, infoLock, jobsLock, hVars,
                   taskVars>>
ReadFg(prog, ok, p) ==
    /\ ReadsLine
    /\ IF ok
       THEN /\ p \in FreePids
            /\ procs' = [procs EXCEPT ![p] = "run"]
            /\ pgid' = [pgid EXCEPT ![p] = p]
            /\ cur' = Cmd("fg", <<prog>>, p)
            /\ pc' = "fg_tcset"
            /\ ret' = "none"
            /\ evlog' = <<"setpgid", "sigdfl", "exec">>
       ELSE /\ cur' = Cmd("fg", <<prog>>, NoPid)
            /\ pc' = "returned"
            /\ ret' = "err_spawn"
            /\ UNCHANGED <<procs, pgid, evlog>>
    /\ UNCHANGED <<tty, jobs, job_counter, issued, last, sigVars, jobsLock, hVars,
                   taskVars>>

FgTcset ==
    /\ pc = "fg_tcset" /\ MainRuns
    /\ IF GroupExists(cur.child)
       THEN tty' = cur.child /\ evlog' = Log("tcset_child")
       ELSE UNCHANGED <<tty, evlog>>
    /\ pc' = "fg_store"
    /\ UNCHANGED <<procs, pgid, jobs, sigVars, cur, ret, mainFrame>>

\* command.rs line 205, then set_foreground_process: the store, the lock, the write.
FgStore ==
    /\ pc \in {"fg_store", "sfp_store"} /\ MainRuns
    /\ fgPid' = cur.child
    /\ pc' = IF pc = "fg_store" THEN "sfp_store" ELSE "sfp_lock"
    /\ UNCHANGED <<osVars, jobs, info, infoLock, cur, ret, evlog, mainFrame>>

InfoLock ==
    /\ pc \in {"sfp_lock", "cfp_lock"} /\ MainRuns
    /\ infoLock = "free"
    /\ infoLock' = "main"
    /\ pc' = IF pc = "sfp_lock" THEN "sfp_write" ELSE "cfp_write"
    /\ UNCHANGED <<osVars, jobs, fgPid, info, cur, ret, evlog, mainFrame>>

SfpWrite ==
    /\ pc = "sfp_write" /\ MainRuns
    /\ info' = cur.prog
    /\ infoLock' = "free"
    /\ pc' = "fg_wait"
    /\ UNCHANGED <<osVars, jobs, fgPid, cur, ret, evlog, mainFrame>>

\* child.wait().await?: the child has ended and is reaped, or the wait itself fails
\* and `?` returns the error at once.
FgWait(ok) ==
    /\ pc = "fg_wait" /\ MainRuns
    /\ IF ok
       THEN /\ procs[cur.child] = "zomb"
            /\ procs' = [procs EXCEPT ![cur.child] = "none"]
            /\ pgid' = [pgid EXCEPT ![cur.child] = ShellPgid]
            /\ evlog' = Log("wait")
            /\ pc' = "fg_reclaim"
            /\ UNCHANGED ret
       ELSE /\ ret' = "err_wait"
            /\ pc' = "returned"
            /\ UNCHANGED <<procs, pgid, evlog>>
    /\ UNCHANGED <<tty, jobs, sigVars, cur, mainFrame>>

FgReclaim ==
    /\ pc = "fg_reclaim" /\ MainRuns
    /\ tty' = ShellPgid
    /\ evlog' = Log("tcset_shell")
    /\ pc' = "fg_clear"
    /\ UNCHANGED <<procs, pgid, jobs, sigVars, cur, ret, mainFrame>>

\* command.rs line 216, then clear_foreground_process: the store, the lock, the write.
FgClear ==
    /\ pc \in {"fg_clear", "cfp_store"} /\ MainRuns
    /\ fgPid' = NoForeground
    /\ evlog' = Log("clear")
    /\ pc' = IF pc = "fg_clear" THEN "cfp_store" ELSE "cfp_lock"
    /\ UNCHANGED <<osVars, jobs, info, infoLock, cur, ret, mainFrame>>

CfpWrite ==
    /\ pc = "cfp_write" /\ MainRuns
    /\ info' = NoInfo
    /\ infoLock' = "free"
    /\ pc' = "returned"
    /\ ret' = "ok"
    /\ UNCHANGED <<osVars, jobs, fgPid, cur, evlog, mainFrame>>

\* --- the builtin fg: handle_builtin_fg
ReadFgBuiltin(words) ==
    /\ ReadsLine
    /\ IsFgLine(words)
    /\ IF jobsLock # "free"
       THEN /\ cur' = Cmd("fgb", words, NoPid)
            /\ pc' = "returned"
            /\ ret' = "err_lock"
            /\ UNCHANGED jobs
       ELSE /\ jobs' = ResumeJob(jobs, FgJobId(words))
            /\ cur' = Cmd("fgb", words, ResumeTarget(jobs, FgJobId(words)))
            /\ IF ResumeTarget(jobs, FgJobId(words)) = NoPid
               THEN pc' = "returned" /\ ret' = "err_nojob"
               ELSE pc' = "fgb_signal" /\ ret' = "none"
    /\ UNCHANGED <<osVars, job_counter, issued, last, sigVars, jobsLock, hVars, taskVars,
                   evlog>>

\* kill(-pid, SIGCONT) and tcsetpgrp(0, pid): both need a process group `pid`.
FgbSignal ==
    /\ pc = "fgb_signal" /\ MainRuns
    /\ procs' = SignalGroup(cur.child, "SIGCONT")
    /\ tty' = IF GroupExists(cur.child) THEN cur.child ELSE tty
    /\ pc' = "fgb_wait"
    /\ UNCHANGED <<pgid, jobs, sigVars, cur, ret, evlog, mainFrame>>

\* Command::new("wait").arg(pid).status().await?: a program named `wait` is spawned
\* and awaited. It is not the parent of the job, so when it ends does not depend on
\* the job; when no such program exists the spawn error is returned at once.
FgbWait(ok) ==
    /\ pc = "fgb_wait" /\ MainRuns
    /\ IF ok
       THEN pc' = "fgb_reclaim" /\ UNCHANGED ret
       ELSE pc' = "returned" /\ ret' = "err_spawn"
    /\ UNCHANGED <<osVars, jobs, sigVars, cur, evlog, mainFrame>>

FgbReclaim ==
    /\ pc = "fgb_reclaim" /\ MainRuns
    /\ tty' = ShellPgid
    /\ pc' = "returned"
    /\ ret' = "ok"
    /\ UNCHANGED <<procs, pgid, jobs, sigVars, cur, evlog, mainFrame>>

\* --- the builtin jobs: JOBS.lock().expect(..).list_jobs()
ReadJobs ==
    /\ ReadsLine
    /\ pc' = "jobs_lock"
    /\ cur' = Cmd("jobs", <<"jobs">>, NoPid)
    /\ ret' = "none"
    /\ UNCHANGED <<osVars, jmVars, histVars, sigVars, jobsLock, hVars, taskVars, evlog>>

JobsList ==
    /\ pc = "jobs_lock" /\ MainRuns
    /\ jobsLock = "free"
    /\ jobs' = ListJobs(jobs)
    /\ pc' = "returned"
    /\ ret' = "ok"
    /\ UNCHANGED <<osVars, sigVars, cur, evlog, mainFrame>>

\* --- the builtin kill: handle_builtin_kill
ReadKill(p) ==
    /\ ReadsLine
    /\ cur' = Cmd("kill", <<"tish", "kill", Digits[p]>>, p)
    /\ IF jobsLock # "free" THEN pc' = "returned" /\ ret' = "err_lock"
       ELSE IF ~ContainsPid(jobs, p) THEN pc' = "returned" /\ ret' = "err_nopid"
       ELSE pc' = "kill_remove" /\ ret' = "none"
    /\ UNCHANGED <<osVars, jmVars, histVars, sigVars, jobsLock, hVars, taskVars, evlog>>

KillRemove(termErr, killErr, survives) ==
    /\ pc = "kill_remove" /\ MainRuns
    /\ termErr \in KillErrnos(cur.child)
    /\ killErr \in KillErrnos(cur.child)
    /\ pc' = "returned"
    /\ IF jobsLock # "free"
       THEN ret' = "err_lock" /\ UNCHANGED <<procs, jobs>>
       ELSE IF ~ContainsPid(jobs, cur.child)
       THEN ret' = "err_nopid" /\ UNCHANGED <<procs, jobs>>
       ELSE /\ procs' = AfterRemoveSignals(cur.child, termErr, killErr, survives)
            /\ jobs' = IF RemoveOk(termErr, killErr)
                       THEN RemoveEntry(jobs, cur.child) ELSE jobs
            /\ ret' = IF RemoveOk(termErr, killErr) THEN "ok" ELSE "err_kill"
    /\ UNCHANGED <<pgid, tty, sigVars, cur, evlog, mainFrame>>

\* --- the background path: spawn_background_job and the task it spawns
ReadBg(n) ==
    /\ ReadsLine
    /\ tasks[n] = "unissued"
    /\ \A m \in 1..(n - 1) : tasks[m] # "unissued"
    /\ tasks' = [tasks EXCEPT ![n] = "start"]
    /\ cur' = Cmd("bg", <<"sleep", Digits[n], "&">>, NoPid)
    /\ pc' = "returned"
    /\ ret' = "ok"
    /\ UNCHANGED <<osVars, jmVars, histVars, sigVars, jobsLock, hVars, printed, evlog>>

\* execute_command goes on to the next statement, and run to the next line.
NextLine ==
    /\ pc = "returned" /\ MainRuns
    /\ pc' = "prompt"
    /\ cur' = NoCmd
    /\ ret' = "none"
    /\ evlog' = <<>>
    /\ UNCHANGED <<osVars, jobs, sigVars, mainFrame>>

\* JOBS.try_lock() in the task: taken, or the task gives up with a message.
TaskTryLock(n) ==
    /\ tasks[n] = "start"
    /\ IF jobsLock = "free"
       THEN jobsLock' = "task" /\ tasks' = [tasks EXCEPT ![n] = "locked"]
       ELSE tasks' = [tasks EXCEPT ![n] = "failed"] /\ UNCHANGED jobsLock
    /\ UNCHANGED <<osVars, jmVars, histVars, sigVars, mainVars, hVars, printed, evlog>>

\* add_job under the lock, the `[id] pid` line of jobs.values().last() (any entry:
\* a HashMap iterates in no particular order), then the guard is dropped.
TaskAdd(n, outcome, p, shown) ==
    /\ tasks[n] = "locked"
    /\ p \in FreePids
    /\ jobsLock' = "free"
    /\ CASE outcome = "spawn_err" ->
              /\ tasks' = [tasks EXCEPT ![n] = "failed"]
              /\ UNCHANGED <<procs, pgid, jmVars, issued, printed>>
         [] outcome = "no_pid" ->
              /\ procs' = [procs EXCEPT ![p] = "run"]
              /\ pgid' = [pgid EXCEPT ![p] = ShellPgid]
              /\ tasks' = [tasks EXCEPT ![n] = "failed"]
              /\ UNCHANGED <<jmVars, issued, printed>>
         [] outcome = "ok" ->
              /\ procs' = [procs EXCEPT ![p] = "run"]
              /\ pgid' = [pgid EXCEPT ![p] = ShellPgid]
              /\ jobs' = InsertJob(jobs, NextId(jobs, job_counter), p, "sleep",
                                   <<Digits[n]>>)
              /\ job_counter' = job_counter + 1
              /\ issued' = Append(issued, NextId(jobs, job_counter))
              /\ tasks' = [tasks EXCEPT ![n] = "added"]
              /\ shown \in DOMAIN jobs'
              /\ printed' = [id |-> jobs'[shown].id, pid |-> jobs'[shown].pid]
    /\ UNCHANGED <<tty, last, sigVars, mainVars, hVars, evlog>>

\* --- the signal handlers: handle_tstp, handle_int, handle_cont
\* The handlers' test on the pid they loaded: `pid > 0` (`pid <= 0` returns).
HasForegroundBuggy(pid) == pid # NoPid
HasForeground(pid) == pid > 0

\* A signal reaches the shell on one of its threads; the handler first loads
\* CURRENT_FOREGROUND_PID. With no job recorded handle_tstp and handle_cont are
\* done; handle_int still goes on to its closing store of -1.
SignalArrives(sig, th) ==
    /\ hpc = "idle"
    /\ nsig < MaxSignals
    /\ nsig' = nsig + 1
    /\ hthread' = th
    /\ hpid' = fgPid
    /\ hpc' = IF ~HasForeground(fgPid)
              THEN (IF sig = "SIGINT" THEN "int_store" ELSE "idle")
              ELSE IF sig = "SIGTSTP" THEN "tstp_kill"
              ELSE IF sig = "SIGINT" THEN "int_kill"
              ELSE "cont_kill"
    /\ UNCHANGED <<osVars, jmVars, histVars, sigVars, jobsLock, mainVars, taskVars,
                   evlog>>

\* handle_tstp: kill(-pid, SIGTSTP); when it succeeds, tcsetpgrp(0, getpgrp()).
TstpKill ==
    /\ hpc = "tstp_kill"
    /\ IF GroupExists(hpid)
       THEN /\ procs' = SignalGroup(hpid, "SIGTSTP")
            /\ tty' = ShellPgid
            /\ evlog' = IF InFg THEN Log("tcset_shell") ELSE evlog
            /\ hpc' = "tstp_lock"
       ELSE /\ hpc' = "tstp_store"
            /\ UNCHANGED <<procs, tty, evlog>>
    /\ UNCHANGED <<jobs, fgPid, handlerFrame>>

\* handle_tstp: foreground_info.lock() (blocking), then, when it holds a program,
\* JOBS.try_lock() and suspend_job; both guards are dropped at the end of the block.
TstpLock ==
    /\ hpc = "tstp_lock"
    /\ infoLock = "free"
    /\ IF info # NoInfo /\ jobsLock = "free"
       THEN jobs' = SuspendJob(jobs, hpid)
       ELSE UNCHANGED jobs
    /\ hpc' = "tstp_store"
    /\ UNCHANGED <<procs, tty, fgPid, evlog, handlerFrame>>

\* The handlers of stop and interrupt end with CURRENT_FOREGROUND_PID.store(-1).
HandlerStore ==
    /\ hpc \in {"tstp_store", "int_store"}
    /\ fgPid' = NoForeground
    /\ hpc' = "idle"
    /\ UNCHANGED <<procs, tty, jobs, evlog, handlerFrame>>

\* handle_int: kill(-pid, SIGINT), then tcsetpgrp(0, getpgrp()).
IntKill ==
    /\ hpc = "int_kill"
    /\ procs' = SignalGroup(hpid, "SIGINT")
    /\ tty' = ShellPgid
    /\ evlog' = IF InFg THEN Log("tcset_shell") ELSE evlog
    /\ hpc' = "int_store"
    /\ UNCHANGED <<jobs, fgPid, handlerFrame>>

\* handle_cont: kill(-pid, SIGCONT), tcsetpgrp(0, pid), and the handler is re-armed.
ContKill ==
    /\ hpc = "cont_kill"
    /\ procs' = SignalGroup(hpid, "SIGCONT")
    /\ tty' = IF GroupExists(hpid) THEN hpid ELSE tty
    /\ hpc' = "idle"
    /\ UNCHANGED <<jobs, fgPid, evlog, handlerFrame>>

FgLines ==
    {<<"fg">>, <<"tish", "fg">>}
    \cup {<<"fg", Digits[i]>> : i \in 1..MaxBg}
    \cup {<<"tish", "fg", Digits[i]>> : i \in 1..MaxBg}

MainStep ==
    \/ \E prog \in FgProgs, ok \in BOOLEAN, p \in Pids : ReadFg(prog, ok, p)
    \/ FgTcset
    \/ FgStore
    \/ InfoLock
    \/ SfpWrite
    \/ \E ok \in BOOLEAN : FgWait(ok)
    \/ FgReclaim
    \/ FgClear
    \/ CfpWrite
    \/ \E w \in FgLines : ReadFgBuiltin(w)
    \/ FgbSignal
    \/ \E ok \in BOOLEAN : FgbWait(ok)
    \/ FgbReclaim
    \/ ReadJobs
    \/ JobsList
    \/ \E p \in Pids : ReadKill(p)
    \/ \E t \in {"OK", "EPERM", "ESRCH"}, k \in {"OK", "EPERM", "ESRCH"},
          s \in BOOLEAN : KillRemove(t, k, s)
    \/ \E n \in 1..MaxBg : ReadBg(n)
    \/ NextLine

TaskStep ==
    \/ \E n \in 1..MaxBg : TaskTryLock(n)
    \/ \E n \in 1..MaxBg, o \in {"spawn_err", "no_pid", "ok"}, p \in Pids, q \in Pids :
          TaskAdd(n, o, p, q)

HandlerStep ==
    \/ TstpKill
    \/ TstpLock
    \/ HandlerStore
    \/ IntKill
    \/ ContKill

EnvStep ==
    \/ \E p \in Pids : ProcExit(p)
    \/ \E p \in Pids : ProcStop(p)
    \/ \E p \in Pids : ProcReap(p)
    \/ \E sig \in {"SIGTSTP", "SIGINT", "SIGCONT"}, th \in {"main", "worker"} :
          SignalArrives(sig, th)

Next ==
    /\ UNCHANGED <<lineVars, cmdVars>>
    /\ (MainStep \/ TaskStep \/ HandlerStep \/ EnvStep)

Spec == Init /\ [][Next]_vars

\* ---------------------------------------- execute_command: one input line
\* What stands between two `&&` of an input line: a program that exits with status
\* 0, one that exits with status 1, a program that does not exist, a script that
\* ends with the shell's exit request, or nothing but blanks.
Segments == {"true", "false", "nosuchcmd", "script.lua", " "}

\* TishCommand::execute on a statement: Ok with the child's exit status, or Err.
Execute(program) ==
    CASE program = "true" -> [ok |-> TRUE, code |-> "SUCCESS", err |-> ""]
      [] program = "false" -> [ok |-> TRUE, code |-> "FAILURE", err |-> ""]
      [] program = "nosuchcmd" -> [ok |-> FALSE, code |-> "", err |-> "NotFound"]
      [] program = "script.lua" -> [ok |-> FALSE, code |-> "", err |-> "__tish_exit"]

\* str::trim on a segment: blanks only trim to the empty string.
Trim(seg) == IF seg = " " THEN "" ELSE seg

\* TishCommand::parse: split on `&&`, trim, drop the empty segments, parse the rest.
\* A statement keeps the position of its segment in the line.
RECURSIVE ParseFrom(_, _)
ParseFrom(segs, i) ==
    IF i > Len(segs) THEN <<>>
    ELSE IF Trim(segs[i]) = "" THEN ParseFrom(segs, i + 1)
    ELSE <<[pos |-> i, program |-> Trim(segs[i])]>> \o ParseFrom(segs, i + 1)
Parse(segs) == ParseFrom(segs, 1)

Lines == UNION {[1..n -> Segments] : n \in 1..MaxStmts}

jobControlVars ==
    <<procs, pgid, tty, jobs, job_counter, issued, last, fgPid, info, infoLock,
      jobsLock, pc, cur, ret, hpc, hthread, hpid, tasks, printed, nlines, nsig, evlog>>

\* execute_command is entered with a line: exit_code = SUCCESS, the line is parsed.
ExecuteCommand(input) ==
    /\ lpc = "idle"
    /\ line' = input
    /\ commands' = Parse(input)
    /\ exit_code' = "SUCCESS"
    /\ ran' = <<>>
    /\ lpc' = "loop"
    /\ UNCHANGED jobControlVars

\* One turn of `for cmd in commands`: Ok continues; an error that holds
\* "__tish_exit" continues; any other error is printed and sets FAILURE.
ExecuteStatement ==
    /\ lpc = "loop"
    /\ Len(ran) < Len(commands)
    /\ LET cmd == commands[Len(ran) + 1]
           result == Execute(cmd.program)
       IN  /\ ran' = Append(ran, cmd.pos)
           /\ exit_code' = IF result.ok \/ result.err = "__tish_exit"
                           THEN exit_code ELSE "FAILURE"
    /\ UNCHANGED <<line, commands, lpc, jobControlVars>>

\* The loop is over: `return exit_code`.
ExecuteReturn ==
    /\ lpc = "loop"
    /\ Len(ran) = Len(commands)
    /\ lpc' = "done"
    /\ UNCHANGED <<line, commands, exit_code, ran, jobControlVars>>

\* The caller takes the exit code; the next line can be read.
ExecuteNext ==
    /\ lpc = "done"
    /\ lpc' = "idle"
    /\ line' = <<>>
    /\ commands' = <<>>
    /\ exit_code' = "SUCCESS"
    /\ ran' = <<>>
    /\ UNCHANGED jobControlVars

NextLineLoop ==
    /\ UNCHANGED cmdVars
    /\ \/ \E input \in Lines : ExecuteCommand(input)
       \/ ExecuteStatement
       \/ ExecuteReturn
       \/ ExecuteNext

SpecLine == Init /\ [][NextLineLoop]_vars

\* ------------------------------------------------- Tokenizer and the parser
\* A string is the sequence of its characters.

\* The value of a `let`: the one element of a set written {e : x \in {v}}, where v
\* is computed once and e is computed with x standing for its value.
Only(S) == CHOOSE x \in S : TRUE

IsQuote(c) == c = "\"" \/ c = "'"

\* str::contains.
Contains(s0, sub0) ==
    Only({\E i \in 1..(Len(s) - Len(sub) + 1) : SubSeq(s, i, i + Len(sub) - 1) = sub :
          s \in {s0}, sub \in {sub0}})

\* The character loop of Tokenizer::next and Tokenizer::peek: quotes toggle `open`
\* and are dropped, a blank outside quotes ends the token. `stop` is the position
\* of that blank (0 when the string ended first).
RECURSIVE Scan(_, _, _, _)
Scan(current0, i0, open0, nxt0) ==
    Only({IF i > Len(current) THEN [nxt |-> nxt, stop |-> 0]
          ELSE IF IsQuote(current[i]) THEN Scan(current, i + 1, 1 - open, nxt)
          ELSE IF current[i] = " " /\ open = 0 THEN [nxt |-> nxt, stop |-> i]
          ELSE Scan(current, i + 1, open, Append(nxt, current[i])) :
          current \in {current0}, i \in {i0}, open \in {open0}, nxt \in {nxt0}})

\* Tokenizer::new. `some` tells whether `current` is Some.
NewTokenizer(input0) ==
    Only({[some |-> TRUE, current |-> input,
           has_redirection |-> Contains(input, <<" ", ">", " ">>)
                                  \/ Contains(input, <<" ", "<", " ">>)] :
          input \in {input0}})

\* Iterator::next of the Tokenizer: the token (isSome = FALSE for None) and the
\* tokenizer it leaves. `current` stays None unless a remainder is left; an empty
\* token (a blank at the front) is returned as None.
TokenizerRemainder(tk, stop) ==
    IF stop > 0 /\ stop < Len(tk.current)
    THEN SubSeq(tk.current, stop + 1, Len(tk.current))
    ELSE <<>>
TokenizerNext(tk0) ==
    Only({IF ~tk.some THEN [isSome |-> FALSE, tok |-> <<>>, tk |-> tk]
          ELSE Only({[isSome |-> sc.nxt # <<>>,
                      tok |-> sc.nxt,
                      tk |-> Only({[tk EXCEPT !.some = (remainder # <<>>),
                                            !.current = remainder] :
                                   remainder \in {TokenizerRemainder(tk, sc.stop)}})] :
                     sc \in {Scan(tk.current, 1, 0, <<>>)}}) :
          tk \in {tk0}})

Peek(tk0) ==
    Only({IF tk.some THEN Scan(tk.current, 1, 0, <<>>).nxt ELSE <<>> : tk \in {tk0}})

\* Tokenizer::get_args: tokens up to the first None or `&&`.
RECURSIVE GetArgsFrom(_, _)
GetArgsFrom(tk0, args0) ==
    Only({IF ~n.isSome \/ n.tok = <<"&", "&">>
          THEN [args |-> args, tk |-> n.tk, panic |-> FALSE]
          ELSE GetArgsFrom(n.tk, Append(args, n.tok)) :
          n \in {TokenizerNext(tk0)}, args \in {args0}})
GetArgs(tk) == GetArgsFrom(tk, <<>>)

RedirectionOps == {<<">">>, <<"<">>, <<">", ">">>}

\* Tokenizer::args_before_redirection: tokens up to the first operator; the unwrap
\* of a None token panics.
RECURSIVE ArgsBeforeFrom(_, _)
ArgsBeforeFrom(tk0, args0) ==
    Only({IF ~tk.some \/ Peek(tk) \in RedirectionOps
          THEN [args |-> args, tk |-> tk, panic |-> FALSE]
          ELSE Only({IF ~n.isSome THEN [args |-> args, tk |-> n.tk, panic |-> TRUE]
                     ELSE ArgsBeforeFrom(n.tk, Append(args, n.tok)) :
                     n \in {TokenizerNext(tk)}}) :
          tk \in {tk0}, args \in {args0}})
ArgsBeforeRedirection(tk0) ==
    Only({IF ~tk.has_redirection THEN GetArgs(tk) ELSE ArgsBeforeFrom(tk, <<>>) :
          tk \in {tk0}})

\* Option<String> and Option<(String, bool)> of the two redirections.
NoRedirect == [some |-> FALSE]
RedirectIn(file) == [some |-> TRUE, path |-> file]
RedirectOut(file, append) == [some |-> TRUE, path |-> file, append |-> append]

\* The TishCommand values. `pipe_to` is NoChain or the next stage.
TishCommand(program, args, background, redirect_in, redirect_out) ==
    [kind |-> "cmd", program |-> program, args |-> args, background |-> background,
     pipe_to |-> NoChain, redirect_in |-> redirect_in, redirect_out |-> redirect_out]
EmptyCommand == TishCommand(<<>>, <<>>, FALSE, NoRedirect, NoRedirect)

\* parse_single_command's closing loop: operators and the files that follow them.
RECURSIVE Redirections(_, _, _)
Redirections(tk0, rin0, rout0) ==
    Only({IF ~tk.some THEN [redirect_in |-> rin, redirect_out |-> rout]
          ELSE Only({IF ~(op.isSome /\ op.tok \in RedirectionOps)
                     THEN Redirections(op.tk, rin, rout)
                     ELSE Only({IF ~file.isSome THEN Redirections(file.tk, rin, rout)
                                ELSE IF op.tok = <<"<">>
                                THEN Redirections(file.tk, RedirectIn(file.tok), rout)
                                ELSE Redirections(file.tk, rin,
                                         RedirectOut(file.tok, op.tok = <<">", ">">>)) :
                                file \in {TokenizerNext(op.tk)}}) :
                     op \in {TokenizerNext(tk)}}) :
          tk \in {tk0}, rin \in {rin0}, rout \in {rout0}})

\* The command parse_single_command builds from the tokens before the first
\* redirection: the first is the program, a last `&` is taken off the others.
CommandOf(tokens, tk) ==
    Only({Only({TishCommand(Head(tokens),
                            IF background THEN SubSeq(args, 1, Len(args) - 1) ELSE args,
                            background, r.redirect_in, r.redirect_out) :
                background \in {args # <<>> /\ args[Len(args)] = <<"&">>},
                r \in {Redirections(tk, NoRedirect, NoRedirect)}}) :
          args \in {Tail(tokens)}})

\* TishCommand::parse_single_command on the text of one stage.
ParseSingleCommand(text) ==
    Only({IF t.panic THEN Panicked
          ELSE IF t.args = <<>> THEN EmptyCommand
          ELSE CommandOf(t.args, t.tk) :
          t \in {ArgsBeforeRedirection(NewTokenizer(text))}})

\* The process environment: no variable of the modelled alphabet is set.
Environ == <<>>
IsAlphanumeric(c) == c \in {"a", "b", "c", "x", "o", "U"}

\* EnvManager::expand_variable on a token that starts with `$`: the name is the
\* alphanumeric run after it; no name gives "$", an unset variable gives "".
RECURSIVE TakeWhileAlnum(_, _)
TakeWhileAlnum(tok0, i0) ==
    Only({IF i > Len(tok) \/ ~IsAlphanumeric(tok[i]) THEN <<>>
          ELSE <<tok[i]>> \o TakeWhileAlnum(tok, i + 1) :
          tok \in {tok0}, i \in {i0}})
ExpandVariable(tok) ==
    Only({IF var_name = <<>> THEN <<"$">>
          ELSE IF var_name \in DOMAIN Environ THEN Environ[var_name] ELSE <<>> :
          var_name \in {TakeWhileAlnum(tok, 2)}})

\* EnvManager::expand: the statement is tokenized (which drops the quotes and ends
\* at the first empty token), `$` tokens are expanded, and the tokens are joined by
\* single blanks. (No token of the modelled alphabet starts with `~`.)
RECURSIVE ExpandFrom(_, _, _)
ExpandFrom(tk0, result0, first) ==
    Only({IF ~n.isSome THEN result
          ELSE ExpandFrom(n.tk,
                          (IF first THEN <<>> ELSE Append(result, " "))
                              \o (IF n.tok[1] = "$" THEN ExpandVariable(n.tok)
                                  ELSE n.tok),
                          FALSE) :
          n \in {TokenizerNext(tk0)}, result \in {result0}})
Expand(input) == ExpandFrom(NewTokenizer(input), <<>>, TRUE)

\* str::trim (the only whitespace of the modelled alphabet is the blank).
RECURSIVE TrimStart(_)
TrimStart(s0) ==
    Only({IF s # <<>> /\ Head(s) = " " THEN TrimStart(Tail(s)) ELSE s : s \in {s0}})
RECURSIVE TrimEnd(_)
TrimEnd(s0) ==
    Only({IF s # <<>> /\ s[Len(s)] = " " THEN TrimEnd(SubSeq(s, 1, Len(s) - 1)) ELSE s :
          s \in {s0}})
TrimStr(s) == TrimEnd(TrimStart(s))

\* What filter(|s| !s.is_empty()) keeps of a trimmed piece.
KeepNonEmpty(piece) == Only({IF t = <<>> THEN <<>> ELSE <<t>> : t \in {TrimStr(piece)}})

\* str::split(sep).map(str::trim).filter(|s| !s.is_empty()).
RECURSIVE SplitFrom(_, _, _, _)
SplitFrom(s0, sep0, i0, piece0) ==
    Only({IF i > Len(s) THEN KeepNonEmpty(piece)
          ELSE IF i + Len(sep) - 1 <= Len(s) /\ SubSeq(s, i, i + Len(sep) - 1) = sep
          THEN KeepNonEmpty(piece) \o SplitFrom(s, sep, i + Len(sep), <<>>)
          ELSE SplitFrom(s, sep, i + 1, Append(piece, s[i])) :
          s \in {s0}, sep \in {sep0}, i \in {i0}, piece \in {piece0}})
SplitTrimmed(s, sep) == SplitFrom(s, sep, 1, <<>>)

\* The loop of parse_command over the stages, last stage first: each parsed stage
\* gets the chain built so far as its pipe_to.
RECURSIVE LinkStages(_, _, _)
LinkStages(parts0, i0, final_cmd0) ==
    Only({IF i = 0 THEN final_cmd
          ELSE Only({IF current_cmd.kind = "panic" THEN Panicked
                     ELSE LinkStages(parts, i - 1,
                                     IF final_cmd.kind = "none" THEN current_cmd
                                     ELSE [current_cmd EXCEPT !.pipe_to = final_cmd]) :
                     current_cmd \in {ParseSingleCommand(parts[i])}}) :
          parts \in {parts0}, i \in {i0}, final_cmd \in {final_cmd0}})

\* The closure parse_command of TishCommand::parse, on one statement.
ParseCommand(cmd_str) ==
    Only({IF Contains(expanded, <<"|">>)
          THEN Only({LinkStages(parts, Len(parts), NoChain) :
                     parts \in {SplitTrimmed(expanded, <<"|">>)}})
          ELSE ParseSingleCommand(expanded) :
          expanded \in {Expand(cmd_str)}})

\* TishCommand::parse on a whole input: the chains of its statements (`panic` when
\* parsing one of them panicked).
RECURSIVE ParseStatements(_, _)
ParseStatements(stmts0, i0) ==
    Only({IF i > Len(stmts) THEN [panic |-> FALSE, cmds |-> <<>>]
          ELSE Only({IF c.kind = "panic" \/ rest.panic
                     THEN [panic |-> TRUE, cmds |-> <<>>]
                     ELSE IF c.kind = "none" THEN rest
                     ELSE [panic |-> FALSE, cmds |-> <<c>> \o rest.cmds] :
                     c \in {ParseCommand(stmts[i])},
                     rest \in {ParseStatements(stmts, i + 1)}}) :
          stmts \in {stmts0}, i \in {i0}})
ParseInput(input0) ==
    Only({IF TrimStr(input) = <<>> THEN [panic |-> FALSE, cmds |-> <<>>]
          ELSE ParseStatements(SplitTrimmed(input, <<"&", "&">>), 1) :
          input \in {input0}})

\* ------------------------------------------------ execute: one parsed line
\* The words a typed line is made of; a line is up to MaxToks of them, joined by
\* single blanks. `$U` names a variable that is not set.
TypedWords ==
    {<<"c">>, <<"x">>, <<">">>, <<">", ">">>, <<"<">>, <<"|">>, <<"&">>,
     <<"'", "|", "'">>, <<"$", "U">>, <<"&", "&">>,
     <<"'", "x", " ", "x", "'">>, <<"'", "&", "&", "'">>}

\* [String]::join(" ").
RECURSIVE Join(_)
Join(words) ==
    IF words = <<>> THEN <<>>
    ELSE IF Len(words) = 1 THEN words[1]
    ELSE words[1] \o <<" ">> \o Join(Tail(words))

TypedLines == {Join(w) : w \in UNION {[1..n -> TypedWords] : n \in 1..MaxToks}}

\* HashMap::get on ALIASES.
AliasGet(table, name) ==
    IF \E e \in table : e[1] = name
    THEN [some |-> TRUE, value |-> (CHOOSE e \in table : e[1] = name)[2]]
    ELSE [some |-> FALSE]

\* TishCommand::resolve_command: the alias value of the program (the program itself
\* when it has none), parsed as a line.
ResolveCommand(table, program) ==
    Only({ParseInput(IF a.some THEN a.value ELSE program) :
          a \in {AliasGet(table, program)}})

\* How a spawned child ends: cmd.spawn() fails, the child is killed by a signal (no
\* exit code), or it exits with a code.
ChildCodes == {0, 1, 255}
NoCode == -1
Outcomes ==
    {[kind |-> "notfound", code |-> NoCode], [kind |-> "signaled", code |-> NoCode]}
        \cup {[kind |-> "exit", code |-> c] : c \in ChildCodes}

\* ExitCode::from(status.code().unwrap_or(0) as u8).
ExitCodeOf(outcome) == IF outcome.kind = "exit" THEN outcome.code % 256 ELSE 0

\* What execute started for one statement: the program and arguments handed to
\* tokio::process::Command, the child's outcome, and the ExitCode execute returned.
Spawn(program, args, background, outcome, returned) ==
    [program |-> program, args |-> args, background |-> background,
     outcome |-> outcome, returned |-> returned]

\* execute_command is entered with a line: the line is parsed, exit_code = SUCCESS.
ExecuteLine(input) ==
    /\ xpc = "idle"
    /\ apc = "idle"
    /\ \E r \in {ParseInput(input)} :
          /\ chain' = r.cmds
          /\ xpc' = IF r.panic THEN "panicked" ELSE "loop"
    /\ stmt' = input
    /\ xi' = 0
    /\ status' = 0
    /\ spawned' = <<>>
    /\ UNCHANGED <<jobControlVars, lineVars, tokVars, aliasVars>>

\* One turn of `for cmd in commands` on an external program: cmd.execute looks at
\* the chain head only. In the background the program is spawned by a task and
\* execute returns Ok(SUCCESS). In the foreground resolve_command's first command
\* is spawned with its arguments followed by the typed ones (`command[0]` panics
\* when there is none), and execute returns Err when the spawn fails, else Ok with
\* the child's exit code. execute_command sets FAILURE on Err and drops an Ok value.
ExecuteCmd(outcome) ==
    /\ xpc = "loop"
    /\ xi < Len(chain)
    /\ \E cmd \in {chain[xi + 1]} :
       \E command \in {IF cmd.background THEN [panic |-> FALSE, cmds |-> <<>>]
                       ELSE ResolveCommand(aliases, cmd.program)} :
           IF cmd.background
           THEN /\ spawned' = Append(spawned,
                                  Spawn(cmd.program, cmd.args, TRUE, outcome, 0))
                /\ UNCHANGED <<xpc, status>>
           ELSE IF command.panic \/ command.cmds = <<>>
           THEN /\ xpc' = "panicked"
                /\ UNCHANGED <<spawned, status>>
           ELSE IF outcome.kind = "notfound"
           THEN /\ status' = 1
                /\ UNCHANGED <<xpc, spawned>>
           ELSE /\ spawned' = Append(spawned,
                                  Spawn(command.cmds[1].program,
                                        command.cmds[1].args \o cmd.args,
                                        FALSE, outcome, ExitCodeOf(outcome)))
                /\ UNCHANGED <<xpc, status>>
    /\ xi' = xi + 1
    /\ UNCHANGED <<stmt, chain, jobControlVars, lineVars, tokVars, aliasVars>>

\* The loop is over: `return exit_code`; the caller uses it as the process exit code.
ExecuteLineReturn ==
    /\ xpc = "loop"
    /\ xi = Len(chain)
    /\ xpc' = "done"
    /\ UNCHANGED <<stmt, chain, xi, status, spawned, jobControlVars, lineVars, tokVars, aliasVars>>

\* The interactive loop reads the next line.
ExecuteLineNext ==
    /\ xpc = "done"
    /\ xpc' = "idle"
    /\ stmt' = <<>>
    /\ chain' = <<>>
    /\ xi' = 0
    /\ status' = 0
    /\ spawned' = <<>>
    /\ UNCHANGED <<jobControlVars, lineVars, tokVars, aliasVars>>

NextParse ==
    \/ xpc = "idle" /\ \E input \in TypedLines : ExecuteLine(input)
    \/ xpc = "loop" /\ \E outcome \in Outcomes : ExecuteCmd(outcome)
    \/ ExecuteLineReturn
    \/ ExecuteLineNext

SpecParse == Init /\ [][NextParse]_vars

\* ------------------------------------------------------------- aliases
\* The alias names and values a configuration sets, and the lines typed with them.
AliasNames == {<<"a">>, <<"b">>, <<"c">>}
AliasValues ==
    {<<"a">>, <<"b">>, <<"c">>, <<"b", " ", "x">>, <<"a", " ", "x">>, <<" ">>,
     <<"|">>}
AliasLines == {<<"a">>, <<"a", " ", "x">>, <<"b">>}

\* `alias[key] = value` from Lua: HashMap::insert replaces the entry of the key.
AliasInsert(key, value) ==
    /\ xpc = "idle"
    /\ apc = "idle"
    /\ aliases' = {e \in aliases : e[1] # key} \cup {<<key, value>>}
    /\ UNCHANGED <<rest_words, current_command, seen_aliases, accumulated_args, apc, resolved,
                   parseVars, jobControlVars, lineVars, tokVars>>

\* str::split_whitespace.
SplitWhitespace(s) == SplitTrimmed(s, <<" ">>)

\* The guard of the loop of resolve_alias_recursively.
LoopContinuesBuggy(seen, command) == TRUE
LoopContinues(seen, command) == command \notin seen

\* format!("{} {}", command, args.join(" ")), or the command alone without args.
WithArgs(command, args) ==
    IF args = <<>> THEN command ELSE command \o <<" ">> \o Join(args)

\* One pass through `while !seen_aliases.contains(&current_command)`: the loop ends
\* (`done`, with the string returned) or goes on with a new current_command.
AliasIteration(table, command, seen, args) ==
    LET a == AliasGet(table, command)
        parts == IF a.some THEN SplitWhitespace(a.value) ELSE <<>>
        new_args == IF Len(parts) > 1 THEN Tail(parts) \o args ELSE args
        return(str) == [done |-> TRUE, result |-> str, command |-> command,
                        seen |-> seen \cup {command}, args |-> args]
    IN  IF ~LoopContinues(seen, command)
        THEN [done |-> TRUE, result |-> WithArgs(command, args), command |-> command,
              seen |-> seen, args |-> args]
        ELSE IF ~a.some THEN return(WithArgs(command, args))
        ELSE IF parts = <<>> THEN return(command)
        ELSE IF parts[1] = command
        THEN [return(IF new_args = <<>> THEN a.value ELSE WithArgs(parts[1], new_args))
                 EXCEPT !.args = new_args]
        ELSE [done |-> FALSE, result |-> <<>>, command |-> parts[1],
              seen |-> seen \cup {command}, args |-> new_args]

\* resolve_alias_recursively as a function of the table: the string it returns.
RECURSIVE ResolveAliasFrom(_, _, _, _)
ResolveAliasFrom(table, command, seen, args) ==
    Only({IF it.done THEN it.result
          ELSE ResolveAliasFrom(table, it.command, it.seen, it.args) :
          it \in {AliasIteration(table, command, seen, args)}})
ResolveAliasRecursively(table, command, args) ==
    ResolveAliasFrom(table, command, {}, args)

\* alias.rs resolve_command is entered with a line: a blank line returns the empty
\* string, else the first word goes to resolve_alias_recursively.
AliasResolveCommand(input) ==
    /\ apc = "idle"
    /\ xpc = "idle"
    /\ \E w \in {SplitWhitespace(input)} :
       IF w = <<>>
       THEN /\ apc' = "done"
            /\ resolved' = <<>>
            /\ UNCHANGED <<rest_words, current_command>>
       ELSE /\ apc' = "loop"
            /\ rest_words' = Tail(w)
            /\ current_command' = w[1]
            /\ resolved' = <<>>
    /\ seen_aliases' = {}
    /\ accumulated_args' = <<>>
    /\ UNCHANGED <<aliases, parseVars, jobControlVars, lineVars, tokVars>>

\* One pass through the loop; when it ends, resolve_command appends the other words.
AliasLoop ==
    /\ apc = "loop"
    /\ \E it \in {AliasIteration(aliases, current_command, seen_aliases,
                                  accumulated_args)} :
           /\ current_command' = it.command
           /\ seen_aliases' = it.seen
           /\ accumulated_args' = it.args
           /\ apc' = IF it.done THEN "done" ELSE "loop"
           /\ resolved' = IF ~it.done THEN resolved
                          ELSE IF rest_words # <<>>
                          THEN it.result \o <<" ">> \o Join(rest_words)
                          ELSE it.result
    /\ UNCHANGED <<aliases, rest_words, parseVars, jobControlVars, lineVars, tokVars>>

\* The caller takes the string.
AliasReturn ==
    /\ apc = "done"
    /\ apc' = "idle"
    /\ rest_words' = <<>>
    /\ current_command' = <<>>
    /\ seen_aliases' = {}
    /\ accumulated_args' = <<>>
    /\ resolved' = <<>>
    /\ UNCHANGED <<aliases, parseVars, jobControlVars, lineVars, tokVars>>

NextAlias ==
    \/ \E key \in AliasNames, value \in AliasValues : AliasInsert(key, value)
    \/ \E input \in AliasLines : ExecuteLine(input)
    \/ \E outcome \in Outcomes : ExecuteCmd(outcome)
    \/ ExecuteLineReturn
    \/ ExecuteLineNext
    \/ \E input \in AliasLines \cup {<<" ">>} : AliasResolveCommand(input)
    \/ AliasLoop
    \/ AliasReturn

SpecAlias == Init /\ [][NextAlias]_vars

\* resolve_alias_recursively runs on without waiting for anything: a loop that can
\* take a turn takes it.
SpecAliasLive == SpecAlias /\ WF_vars(AliasLoop)

\* ------------------------------------------------- the Tokenizer on its own
\* The characters of a line given to Tokenizer::new (by env.rs expand and by
\* TishCommand::parse): a letter, the blank, both quote characters and `&`.
TokChars == {"x", " ", "'", "\"", "&"}
TokLines == UNION {[1..n -> TokChars] : n \in 0..MaxChars}
NotPeeked == [some |-> FALSE]

\* Tokenizer::new(line), followed by get_args up to its loop.
TokNew(input) ==
    /\ tpc = "idle"
    /\ tline' = input
    /\ tokenizer' = NewTokenizer(input)
    /\ yielded' = <<>>
    /\ got_args' = <<>>
    /\ peeked' = NotPeeked
    /\ tpc' = "loop"
    /\ UNCHANGED <<jobControlVars, lineVars, parseVars, aliasVars>>

\* peek() on the tokenizer as it is: &self, the tokenizer is left alone.
TokPeek ==
    /\ tpc = "loop"
    /\ ~peeked.some
    /\ peeked' = [some |-> TRUE, tok |-> Peek(tokenizer)]
    /\ UNCHANGED <<tline, tokenizer, yielded, got_args, tpc>>
    /\ UNCHANGED <<jobControlVars, lineVars, parseVars, aliasVars>>

\* One turn of `while let Some(a) = self.next()` in get_args: None ends the loop,
\* `&&` breaks out of it, any other word is pushed.
TokGetArgsTurn ==
    /\ tpc = "loop"
    /\ \E n \in {TokenizerNext(tokenizer)} :
          /\ tokenizer' = n.tk
          /\ yielded' = IF n.isSome THEN Append(yielded, n.tok) ELSE yielded
          /\ got_args' = IF n.isSome /\ n.tok # <<"&", "&">>
                         THEN Append(got_args, n.tok) ELSE got_args
          /\ tpc' = IF ~n.isSome THEN "none"
                    ELSE IF n.tok = <<"&", "&">> THEN "break" ELSE "loop"
    /\ peeked' = NotPeeked
    /\ UNCHANGED tline
    /\ UNCHANGED <<jobControlVars, lineVars, parseVars, aliasVars>>

\* get_args returns `args`; the caller drops the tokenizer.
TokReturn ==
    /\ tpc \in {"none", "break"}
    /\ tline' = <<>>
    /\ tokenizer' = [some |-> FALSE, current |-> <<>>, has_redirection |-> FALSE]
    /\ yielded' = <<>>
    /\ got_args' = <<>>
    /\ peeked' = NotPeeked
    /\ tpc' = "idle"
    /\ UNCHANGED <<jobControlVars, lineVars, parseVars, aliasVars>>

NextTok ==
    \/ tpc = "idle" /\ \E input \in TokLines : TokNew(input)
    \/ TokPeek
    \/ TokGetArgsTurn
    \/ TokReturn

SpecTok == Init /\ [][NextTok]_vars

\* -------------------------------------------------------------- properties

\* C1: whenever the main thread is at rest (at the prompt, between statements, or
\* blocked in a wait) and no handler is running, CURRENT_FOREGROUND_PID agrees with
\* the process group that owns the terminal: -1 exactly when the shell's group owns
\* it, p exactly when job group p owns it.
C1_FgPidMatchesTty ==
    (hpc = "idle" /\ pc \in {"prompt", "returned", "fg_wait", "fgb_wait"}) =>
        /\ (fgPid = NoForeground) <=> (tty = ShellPgid)
        /\ \A p \in Pids : (fgPid = p) <=> (tty = p)

\* C2: the ids given to successfully added jobs are 1, 2, 3, ... in the order of the
\* add_job calls, no id is assigned twice (also after its job was removed), every
\* tracked job carries an assigned id of its own, and an add_job that fails
\* allocates no id and inserts no entry.
C2_IdsState ==
    /\ \A i \in 1..Len(issued) : issued[i] = i
    /\ \A p \in DOMAIN jobs : jobs[p].id \in 1..Len(issued)
    /\ \A p, q \in DOMAIN jobs : jobs[p].id = jobs[q].id => p = q
C2_FailedAddStep ==
    (last'.tick # last.tick /\ last'.op = "add" /\ ~last'.ok)
        => UNCHANGED <<jobs, job_counter, issued>>
C2_IdsSequential == []C2_IdsState /\ [][C2_FailedAddStep]_vars
\* An add succeeded after an earlier job had been removed from the table.
C2_Witness ==
    /\ last.op = "add" /\ last.ok
    /\ Len(issued) = 3
    /\ \E i \in 1..2 : \A p \in DOMAIN jobs : jobs[p].id # i

\* C3: end to end. The first `sleep N &` that registers leaves one entry with id 1,
\* Running, and prints `[1] <pid>`; `fg 1`, typed when job 1's process has been
\* stopped through the OS, finds the job Suspended, sets it Running and goes on to
\* wait for it; that wait ends only when the job's process has completed; and when
\* the builtin returns the shell's process group owns the terminal.
C3_Step ==
    /\ (tasks[1] = "locked" /\ tasks'[1] = "added" /\ jobs = <<>>) =>
          \E p \in Pids :
              /\ DOMAIN jobs' = {p}
              /\ jobs'[p].id = 1 /\ jobs'[p].status = "Running"
              /\ printed' = [id |-> 1, pid |-> p]
    /\ \A p \in DOMAIN jobs :
          (/\ pc = "prompt" /\ pc' # "prompt" /\ cur'.words = <<"fg", "1">>
           /\ jobsLock = "free"
           /\ jobs[p].id = 1 /\ procs[p] = "stop") =>
              /\ jobs[p].status = "Suspended"
              /\ jobs'[p].status = "Running"
              /\ pc' = "fgb_signal" /\ cur'.child = p
    /\ (pc = "fgb_wait" /\ pc' # "fgb_wait") => procs[cur.child] \in {"zomb", "none"}
    /\ (cur.kind = "fgb" /\ pc = "fgb_reclaim" /\ pc' = "returned") => tty' = ShellPgid
C3_EndToEnd == [][C3_Step]_vars

\* C4: when handle_tstp has delivered the stop signal to the process group of the
\* recorded foreground pid p, the step that follows (the lock of foreground_info and
\* suspend_job) leaves a job for p in the Job Table, with status Suspended. Stated
\* for the case where the foreground command is recorded and the table lock is free.
C4_Step ==
    (hpc = "tstp_lock" /\ hpc' = "tstp_store" /\ info # NoInfo /\ jobsLock = "free") =>
        (hpid \in DOMAIN jobs' /\ jobs'[hpid].status = "Suspended")
C4_StopSuspendsJob == [][C4_Step]_vars

\* C5: a foreground job that was stopped ends the shell's wait on it: whenever the
\* main thread waits on a stopped foreground child, the wait can return while the
\* child stays stopped.
C5_StopEndsWait ==
    (pc = "fg_wait" /\ MainRuns /\ procs[cur.child] = "stop") =>
        ENABLED (FgWait(TRUE) /\ procs'[cur.child] = "stop")

\* C6: whenever spawn_foreground_job returns after its wait has ended (with a status
\* or with an error), the shell's group owns the terminal, CURRENT_FOREGROUND_PID
\* is -1 and foreground_info is None.
C6_Step ==
    (pc \in FgPcs /\ pc' = "returned") =>
        (tty' = ShellPgid /\ fgPid' = NoForeground /\ info' = NoInfo)
C6_WaitEndReclaims == [][C6_Step]_vars

\* C7: the events of a foreground invocation happen in the order group creation,
\* terminal transfer, disposition reset, exec, wait, terminal reclaim, clear: the
\* first occurrences recorded in evlog are in that order (so the terminal is not
\* reclaimed before the wait has returned).
C7_ForegroundOrder ==
    LET Rank(e) == CASE e = "setpgid" -> 1
                     [] e = "tcset_child" -> 2
                     [] e = "sigdfl" -> 3
                     [] e = "exec" -> 4
                     [] e = "wait" -> 5
                     [] e = "tcset_shell" -> 6
                     [] e = "clear" -> 7
    IN  \A i, j \in 1..Len(evlog) : i < j => Rank(evlog[i]) < Rank(evlog[j])

\* C8: a handler that interrupted the main thread always runs to completion: at
\* every point of it, its next step can be taken.
C8_HandlerCompletes ==
    (hpc # "idle" /\ hthread = "main") => ENABLED HandlerStep

\* C9: when the Job Table lock is held by someone else, each of the builtins jobs,
\* kill and fg returns at once with the lock error: at the point where it takes the
\* lock, its next step is enabled and returns "err_lock".
C9_LockFailureReported ==
    (MainRuns /\ jobsLock # "free") =>
        /\ pc \in {"jobs_lock", "kill_remove"} =>
              ENABLED (MainStep /\ pc' = "returned" /\ ret' = "err_lock")
        /\ (pc = "prompt" /\ nlines < MaxLines) =>
              /\ \A w \in FgLines :
                    ENABLED (ReadFgBuiltin(w) /\ pc' = "returned" /\ ret' = "err_lock")
              /\ \A p \in Pids :
                    ENABLED (ReadKill(p) /\ pc' = "returned" /\ ret' = "err_lock")

\* C10: resume_job(None) returns the pid of the Suspended job with the highest id
\* (None when no job is Suspended); resume_job(Some(id)) returns the pid of the job
\* with that id whatever its status (None when there is none); a returned job is
\* Running afterwards and nothing else in the table changes.
C10_ResumeStep ==
    (last'.tick # last.tick /\ last'.op = "resume") =>
        LET r == last'.pid
            susp == {p \in DOMAIN jobs : jobs[p].status = "Suspended"}
            byId == {p \in DOMAIN jobs : jobs[p].id = last'.arg}
        IN  /\ last'.arg = NoPid =>
                  /\ (r = NoPid) <=> (susp = {})
                  /\ r # NoPid =>
                        r \in susp /\ \A q \in susp : jobs[q].id <= jobs[r].id
            /\ last'.arg # NoPid =>
                  /\ (r = NoPid) <=> (byId = {})
                  /\ r # NoPid => r \in byId
            /\ DOMAIN jobs' = DOMAIN jobs
            /\ \A p \in DOMAIN jobs :
                  jobs'[p] = IF p = r THEN [jobs[p] EXCEPT !.status = "Running"]
                             ELSE jobs[p]
C10_ResumeSelects == [][C10_ResumeStep]_vars
\* resume_job(None) has picked one of two Suspended jobs: the other, with the lower
\* id, is still Suspended.
C10_Witness ==
    /\ last.op = "resume" /\ last.arg = NoPid /\ last.pid # NoPid
    /\ jobs[last.pid].status = "Running"
    /\ \E q \in DOMAIN jobs :
          jobs[q].status = "Suspended" /\ jobs[q].id < jobs[last.pid].id

\* C11: the builtin fg resumes the job whose id was typed: for `fg N` and for
\* `tish fg N` the job resume_job selects is the one it selects for the number N
\* typed after fg, and for a bare `fg` / `tish fg` the last Suspended job.
C11_Step ==
    \A w \in FgLines :
        (/\ pc = "prompt" /\ pc' # "prompt"
         /\ cur'.kind = "fgb" /\ cur'.words = w
         /\ jobsLock = "free") =>
            LET afterFg == IF w[1] = "fg" THEN Tail(w) ELSE Tail(Tail(w))
                typed == IF afterFg = <<>> THEN NoPid ELSE ParseUsize(afterFg[1])
            IN  /\ cur'.child = ResumeTarget(jobs, typed)
                /\ jobs' = ResumeJob(jobs, typed)
C11_FgResumesTypedId == [][C11_Step]_vars

\* C12: a list_jobs call leaves no job in the table whose process no longer exists
\* and leaves the other entries as they were; when every tracked job had completed
\* it leaves the table empty; and it is idempotent: a second call on the table it
\* left removes nothing.
C12_ListStep ==
    (last'.tick # last.tick /\ last'.op = "list") =>
        /\ \A p \in DOMAIN jobs' : Exists(p)
        /\ \A p \in DOMAIN jobs : Exists(p) => (p \in DOMAIN jobs' /\ jobs'[p] = jobs[p])
        /\ DOMAIN jobs' \subseteq DOMAIN jobs
        /\ (\A p \in DOMAIN jobs : ~Exists(p)) => jobs' = <<>>
        /\ ListJobs(jobs') = jobs'
C13_RemoveStep ==
    (last'.tick # last.tick /\ last'.op = "remove" /\ last'.arg \in DOMAIN jobs) =>
        LET pid == last'.arg
            termErr == last'.sig[1]
            killErr == last'.sig[2]
        IN  /\ last'.ok <=> \/ termErr = "OK"
                            \/ termErr = "ESRCH"
                            \/ (termErr \notin {"OK", "ESRCH"} /\ killErr = "OK")
            /\ last'.ok =>
                  /\ DOMAIN jobs' = (DOMAIN jobs) \ {pid}
                  /\ \A q \in DOMAIN jobs' : jobs'[q] = jobs[q]
            /\ ~last'.ok => jobs' = jobs
            /\ termErr = "ESRCH" => procs' = procs
            /\ \A q \in Pids \ {pid} : procs'[q] = procs[q]
C13_RemoveEscalates == [][C13_RemoveStep]_vars
\* A call in which both signals failed: the entry is still there.
C13_Witness ==
    /\ last.op = "remove" /\ ~last.ok
    /\ last.sig = <<"EPERM", "EPERM">>
    /\ last.arg \in DOMAIN jobs

\* C14: a job-control builtin aimed at a pid or id that does not exist returns an
\* error and changes neither the Job Table nor any process nor the terminal: kill
\* with a pid that is not tracked (at its check and in remove_job), and fg with a
\* typed id that no job has, or with no id when no job is Suspended.
C14_Step ==
    /\ (/\ pc = "prompt" /\ pc' # "prompt" /\ cur'.kind = "kill"
        /\ jobsLock = "free" /\ cur'.child \notin DOMAIN jobs) =>
            /\ pc' = "returned" /\ ret' = "err_nopid"
            /\ UNCHANGED <<jobs, procs, tty>>
    /\ (/\ pc = "kill_remove" /\ pc' # "kill_remove"
        /\ jobsLock = "free" /\ cur.child \notin DOMAIN jobs) =>
            /\ ret' = "err_nopid"
            /\ UNCHANGED <<jobs, procs, tty>>
    /\ \A w \in FgLines :
          LET afterFg == IF w[1] = "fg" THEN Tail(w) ELSE Tail(Tail(w))
              typed == IF afterFg = <<>> THEN NoPid ELSE ParseUsize(afterFg[1])
              noSuchJob == IF typed = NoPid
                           THEN SuspendedPids(jobs) = {}
                           ELSE \A p \in DOMAIN jobs : jobs[p].id # typed
          IN  (/\ pc = "prompt" /\ pc' # "prompt"
               /\ cur'.kind = "fgb" /\ cur'.words = w
               /\ jobsLock = "free" /\ noSuchJob) =>
                  /\ pc' = "returned" /\ ret' = "err_nojob"
                  /\ UNCHANGED <<jobs, procs, tty>>
C14_MissingTargetNoEffect == [][C14_Step]_vars

\* C15: every background command that was issued gets to register (its task does
\* not give the registration up), and the job a task registers gets the position of
\* its command in the order of issue as its id, whatever the tasks' interleaving:
\* when no earlier command failed, the n-th command's job has id n.
C15_Step ==
    \A n \in 1..MaxBg :
        /\ (tasks[n] = "start" /\ tasks'[n] # "start") => tasks'[n] = "locked"
        /\ (/\ tasks[n] = "locked" /\ tasks'[n] = "added"
            /\ \A m \in 1..(n - 1) : tasks[m] # "failed") =>
               \E p \in DOMAIN jobs' :
                   jobs'[p].args = <<Digits[n]>> /\ jobs'[p].id = n
C15_BackgroundIdsInIssueOrder == [][C15_Step]_vars

\* C16: the `[id] pid` line printed by a background registration shows the job that
\* this registration added: the id it was given and the pid it was inserted under.
C16_Step ==
    \A n \in 1..MaxBg :
        (tasks[n] = "locked" /\ tasks'[n] = "added") =>
            /\ printed'.id = job_counter
            /\ printed'.pid \in DOMAIN jobs'
            /\ jobs'[printed'.pid].id = job_counter
            /\ jobs'[printed'.pid].args = <<Digits[n]>>
C16_PrintedLineShowsNewJob == [][C16_Step]_vars

\* C17: handle_int with a recorded foreground pid p > 0: the step that forwards the
\* interrupt changes only processes of group p (no process outside it, so no
\* background job, is signalled) and hands the terminal to the shell's group; the
\* handler's last step leaves CURRENT_FOREGROUND_PID at -1; and no step of the
\* handler adds, removes or changes a Job Table entry.
C17_Step ==
    /\ (hpc = "int_kill" /\ hpc' # "int_kill") =>
          /\ hpid > 0
          /\ \A q \in Pids : pgid[q] # hpid => procs'[q] = procs[q]
          /\ \A q \in Pids : (pgid[q] = hpid /\ procs[q] = "run") => procs'[q] = "zomb"
          /\ tty' = ShellPgid
          /\ jobs' = jobs
    /\ (hpc = "int_store" /\ hpc' # "int_store") =>
          /\ hpc' = "idle"
          /\ fgPid' = NoForeground
          /\ UNCHANGED <<procs, tty, jobs>>
C17_InterruptOnlyForeground == [][C17_Step]_vars
\* The interrupt was forwarded to the foreground job while a background job runs:
\* the foreground child has ended, the background job is still running.
C17_Witness ==
    /\ hpc = "int_store" /\ hpid \in Pids
    /\ pgid[hpid] = hpid /\ procs[hpid] = "zomb"
    /\ tty = ShellPgid
    /\ \E q \in DOMAIN jobs : q # hpid /\ procs[q] = "run" /\ jobs[q].status = "Running"

\* C18: a handler that found no foreground job recorded (it loaded -1 or 0) sends no
\* signal, leaves terminal ownership alone and leaves the Job Table alone, at its
\* entry and at every later step of it; and a step that forwards a signal does so
\* for a loaded pid p > 0 and reaches only the processes of group p, which is never
\* the shell's own group.
C18_Step ==
    /\ (nsig' # nsig /\ ~(fgPid > 0)) =>
          /\ hpc' \in {"idle", "int_store"}
          /\ UNCHANGED <<procs, tty, jobs>>
    /\ (hpc # "idle" /\ hpc' # hpc /\ ~(hpid > 0)) =>
          /\ hpc = "int_store" /\ hpc' = "idle"
          /\ UNCHANGED <<procs, tty, jobs>>
    /\ (hpc \in {"tstp_kill", "int_kill", "cont_kill"} /\ hpc' # hpc) =>
          /\ hpid > 0 /\ hpid # ShellPgid
          /\ \A q \in Pids : pgid[q] # hpid => procs'[q] = procs[q]
C18_NoForegroundNoSignal == [][C18_Step]_vars
\* handle_int runs with -1 loaded while a job's process is running and a foreground
\* child's group owns the terminal: nothing was signalled, the terminal is not taken.
C18_Witness ==
    /\ hpc = "int_store" /\ hpid = NoForeground
    /\ tty # ShellPgid
    /\ \E q \in Pids : procs[q] = "run"

\* C19: no path holds a lock while it spawns a process or waits: the step of a
\* background task that spawns its command is taken with the JOBS lock not held by
\* the task, and the main thread spawns a foreground child, and sits in the waits of
\* spawn_foreground_job and of fg, with the foreground_info lock not held by it.
C19_Step ==
    /\ \A n \in 1..MaxBg :
          (/\ tasks[n] = "locked" /\ tasks'[n] # "locked"
           /\ \E p \in Pids : procs[p] = "none" /\ procs'[p] # "none") =>
              jobsLock # "task"
    /\ (pc = "prompt" /\ pc' = "fg_tcset") => infoLock # "main"
    /\ pc \in {"fg_wait", "fgb_wait"} => infoLock # "main"
C19_NoLockAcrossBlockingCall == [][C19_Step]_vars

\* C20: when execute_command returns for a line s1 && ... && sn, every statement of
\* the line has been executed exactly once, in textual order, whatever the earlier
\* ones returned, and the exit code is FAILURE if a statement failed (its program
\* exited with a non-zero status, or could not be run).
C20_AllStatementsRun ==
    lpc = "done" =>
        LET stmts == {i \in 1..Len(line) : line[i] # " "}
        IN  /\ Range(ran) = stmts
            /\ Len(ran) = Cardinality(stmts)
            /\ \A i, j \in 1..Len(ran) : i < j => ran[i] < ran[j]
            /\ (\E i \in stmts : line[i] \in {"false", "nosuchcmd"}) =>
                  exit_code = "FAILURE"

\* The typed words of the line being executed, and the stages of a parsed chain
\* from its head along pipe_to.
C_Typed == SplitTrimmed(stmt, <<" ">>)
RECURSIVE C_Stages(_)
C_Stages(c) == IF c.kind # "cmd" THEN <<>> ELSE <<c>> \o C_Stages(c.pipe_to)
C_Parsed == xpc \in {"loop", "done"}
C_IsName(w) == w \in {<<"c">>, <<"x">>}

\* C21: when the only statement of a line is a foreground command whose child exits
\* with code c, the exit code execute_command returns for the line (the process
\* exit code of the -c, headless and inline-argument modes) is c.
C21_ExitCodePropagated ==
    (/\ xpc = "done"
     /\ Len(chain) = 1
     /\ Len(spawned) = 1
     /\ ~spawned[1].background
     /\ spawned[1].outcome.kind = "exit")
        => status = spawned[1].outcome.code

\* C22: executing a parsed command whose program is the empty string is a no-op:
\* the loop goes on to the next statement, nothing is spawned, the exit code is
\* unchanged and the shell does not panic.
C22_Step ==
    (/\ xpc = "loop"
     /\ xi < Len(chain)
     /\ chain[xi + 1].program = <<>>
     /\ xi' = xi + 1)
        => /\ xpc' = "loop"
           /\ spawned' = spawned
           /\ status' = status
C22_EmptyProgramNoOp == [][C22_Step]_vars

\* C25: executing a chain of N stages spawns the N stages, in order, each with its
\* own program and arguments.
C25_Step ==
    (/\ xpc = "loop"
     /\ xi < Len(chain)
     /\ xi' = xi + 1
     /\ spawned' # spawned)
        => LET stages == C_Stages(chain[xi + 1])
           IN  /\ Len(spawned') = Len(spawned) + Len(stages)
               /\ \A i \in 1..Len(stages) :
                     /\ Len(spawned) + i <= Len(spawned')
                     /\ spawned'[Len(spawned) + i].program = stages[i].program
C25_EveryStageSpawned == [][C25_Step]_vars

\* C26: for a single-stage statement `prog ...` (no pipe, no `&&`, every `>` and `<`
\* followed by a path) the parsed command has background = true exactly when the
\* last typed word is `&`, and that trailing `&` is not among its args.
C26_TrailingAmpersand ==
    LET w == C_Typed IN
    (/\ C_Parsed
     /\ w # <<>>
     /\ C_IsName(w[1])
     /\ \A i \in 1..Len(w) : w[i] \in {<<"c">>, <<"x">>, <<">">>, <<"<">>, <<"&">>}
     /\ \A i \in 1..Len(w) :
           w[i] \in {<<">">>, <<"<">>} => i < Len(w) /\ C_IsName(w[i + 1]))
        => /\ Len(chain) = 1
           /\ chain[1].background <=> (w[Len(w)] = <<"&">>)
           /\ (w[Len(w)] = <<"&">> /\ \A i \in 1..(Len(w) - 1) : w[i] # <<"&">>) =>
                 \A j \in 1..Len(chain[1].args) : chain[1].args[j] # <<"&">>

\* C27: for a pipeline `prog ... | prog ... &` of two or more stages whose last typed
\* word is `&`, the chain head that parse returns has background = true.
C27_BackgroundOnHead ==
    LET w == C_Typed IN
    (/\ C_Parsed
     /\ Len(w) >= 2
     /\ w[Len(w)] = <<"&">>
     /\ \A i \in 1..(Len(w) - 1) : C_IsName(w[i]) \/ w[i] = <<"|">>
     /\ \A i \in 1..(Len(w) - 1) :
           w[i] = <<"|">> => i > 1 /\ C_IsName(w[i - 1]) /\ C_IsName(w[i + 1])
     /\ Len(chain) = 1
     /\ Len(C_Stages(chain[1])) >= 2)
        => chain[1].background

\* C28: for a statement made of names, `|` and quoted `|`, with a name on both sides
\* of every `|`, the chain has as many stages as unquoted `|` plus one.
C28_StageCount ==
    LET w == C_Typed
        bars == {i \in 1..Len(w) : w[i] = <<"|">>}
        quoted == {i \in 1..Len(w) : w[i] = <<"'", "|", "'">>}
    IN  (/\ C_Parsed
         /\ w # <<>>
         /\ \A i \in 1..Len(w) : C_IsName(w[i]) \/ w[i] \in {<<"|">>, <<"'", "|", "'">>}
         /\ \A i \in bars \cup quoted :
               i > 1 /\ i < Len(w) /\ C_IsName(w[i - 1]) /\ C_IsName(w[i + 1]))
            => /\ Len(chain) = 1
               /\ Len(C_Stages(chain[1])) = Cardinality(bars) + 1

\* C29: every chain parse returns ends in pipe_to = none after finitely many stages,
\* and background = true and redirect_out are set on no stage but the last.
C29_ChainShape ==
    C_Parsed =>
        \A k \in 1..Len(chain) :
            LET stages == C_Stages(chain[k]) IN
            /\ stages # <<>>
            /\ stages[Len(stages)].pipe_to = NoChain
            /\ \A i \in 1..(Len(stages) - 1) :
                  /\ ~stages[i].background
                  /\ ~stages[i].redirect_out.some

\* C30: a statement `prog args... OP path` with OP one of `>`, `>>`, `<` parses to
\* program = prog, args = the words before OP, and the redirection OP names:
\* redirect_out = (path, false) for `>`, (path, true) for `>>`, redirect_in = path
\* for `<`.
C30_Redirection ==
    LET w == C_Typed
        n == Len(w)
    IN  (/\ C_Parsed
         /\ n >= 3
         /\ \A i \in (1..n) \ {n - 1} : C_IsName(w[i])
         /\ w[n - 1] \in RedirectionOps)
            => /\ Len(chain) = 1
               /\ chain[1].program = w[1]
               /\ chain[1].args = SubSeq(w, 2, n - 2)
               /\ chain[1].redirect_out =
                     (IF w[n - 1] = <<"<">> THEN NoRedirect
                      ELSE RedirectOut(w[n], w[n - 1] = <<">", ">">>))
               /\ chain[1].redirect_in =
                     (IF w[n - 1] = <<"<">> THEN RedirectIn(w[n]) ELSE NoRedirect)

\* C23: the process spawned on the foreground path is the recursive resolution of the
\* typed program through the alias table (resolve_alias_recursively): its first
\* word is the program, its other words come first among the arguments, the typed
\* arguments follow. With a -> b and b -> c, typing a spawns c.
C23_Step ==
    (/\ xpc = "loop"
     /\ xi < Len(chain)
     /\ ~chain[xi + 1].background
     /\ xi' = xi + 1
     /\ Len(spawned') = Len(spawned) + 1)
        => LET typed == chain[xi + 1]
               expected == SplitWhitespace(
                               ResolveAliasRecursively(aliases, typed.program, <<>>))
               child == spawned'[Len(spawned')]
           IN  /\ expected # <<>>
               /\ child.program = expected[1]
               /\ child.args = Tail(expected) \o typed.args
C23_ForegroundAliasRecursive == [][C23_Step]_vars

\* C24: alias resolution terminates. A turn of the loop of resolve_alias_recursively
\* that stays in the loop has looked up a name not looked up before, so each name is
\* visited at most once; the loop, once entered, returns; and on the foreground path
\* a statement is resolved and started (or found unrunnable) in one step, with at
\* most one process spawned.
C24_Step ==
    /\ (apc = "loop" /\ apc' = "loop")
          => /\ current_command \notin seen_aliases
             /\ seen_aliases' = seen_aliases \cup {current_command}
             /\ Cardinality(seen_aliases') = Cardinality(seen_aliases) + 1
    /\ (xpc = "loop" /\ xi < Len(chain) /\ <<xi, xpc>>' # <<xi, xpc>>)
          => /\ xi' = xi + 1
             /\ Len(spawned') <= Len(spawned) + 1
C24_AliasResolutionTerminates ==
    /\ [][C24_Step]_vars
    /\ (apc = "loop") ~> (apc = "done")
\* The loop ended by its guard on a cycle of two or more names (a -> b, b -> a):
\* every name looked up has an alias that starts with another name.
C24_Witness ==
    /\ apc = "done"
    /\ current_command \in seen_aliases
    /\ Cardinality(seen_aliases) >= 2
    /\ \A n \in seen_aliases :
          /\ AliasGet(aliases, n).some
          /\ SplitWhitespace(AliasGet(aliases, n).value) # <<>>
          /\ SplitWhitespace(AliasGet(aliases, n).value)[1] # n

\* The words of a line as the user quoted them: a blank splits only outside single
\* quotes; each word is given without its quote characters, with whether any part
\* of it was quoted.
RECURSIVE C_QuoteSplit(_, _, _, _, _)
C_QuoteSplit(s, open, word, quoted, acc) ==
    IF s = <<>>
    THEN IF word = <<>> THEN acc ELSE Append(acc, [text |-> word, quoted |-> quoted])
    ELSE IF s[1] = "'"
    THEN C_QuoteSplit(Tail(s), ~open, word, TRUE, acc)
    ELSE IF s[1] = " " /\ ~open
    THEN C_QuoteSplit(Tail(s), open, <<>>, FALSE,
                      IF word = <<>> THEN acc
                      ELSE Append(acc, [text |-> word, quoted |-> quoted]))
    ELSE C_QuoteSplit(Tail(s), open, Append(word, s[1]), quoted, acc)
C_QuotedWords == C_QuoteSplit(stmt, FALSE, <<>>, FALSE, <<>>)

\* C31: quoting makes blanks and operator characters not split-significant. A line
\* that is a program name followed by names and quoted spans (`'x x'`, `'|'`,
\* `'&&'`) parses to one statement of one stage whose arguments are the words after
\* the name, one argument per quoted span.
C31_QuotingProtects ==
    LET w == C_QuotedWords
    IN  (/\ xpc # "idle"
         /\ w # <<>>
         /\ ~w[1].quoted
         /\ \A i \in 1..Len(w) : w[i].quoted \/ C_IsName(w[i].text))
            => /\ xpc # "panicked"
               /\ Len(chain) = 1
               /\ chain[1].pipe_to = NoChain
               /\ chain[1].program = w[1].text
               /\ chain[1].args = [i \in 1..(Len(w) - 1) |-> w[i + 1].text]

\* A line read as quoted spans: a span opens with a quote character and closes at
\* the next quote character of the same kind; spans are separated by one blank.
\* `ok` tells whether the whole line is such spans, each with a blank inside;
\* `spans` are their contents.
C_Unquote(s) == SelectSeq(s, LAMBDA c : ~IsQuote(c))
C_SpanEnd(s, i) ==
    IF \E j \in (i + 1)..Len(s) : s[j] = s[i]
    THEN CHOOSE j \in (i + 1)..Len(s) :
            s[j] = s[i] /\ \A k \in (i + 1)..(j - 1) : s[k] # s[i]
    ELSE 0
RECURSIVE C_SpansFrom(_, _, _)
C_SpansFrom(s, i, acc) ==
    IF i > Len(s) \/ ~IsQuote(s[i]) THEN [ok |-> FALSE, spans |-> acc]
    ELSE LET j == C_SpanEnd(s, i)
             content == SubSeq(s, i + 1, j - 1)
         IN  IF j = 0 \/ \A k \in 1..Len(content) : content[k] # " "
             THEN [ok |-> FALSE, spans |-> acc]
             ELSE IF j = Len(s) THEN [ok |-> TRUE, spans |-> Append(acc, content)]
             ELSE IF s[j + 1] = " " THEN C_SpansFrom(s, j + 2, Append(acc, content))
             ELSE [ok |-> FALSE, spans |-> acc]
C_Spans == C_SpansFrom(tline, 1, <<>>)

\* C32: for a line made only of quoted spans with blanks inside, iterating the
\* Tokenizer yields exactly one word per span, the blanks inside preserved (the
\* words are compared without quote characters), also when a span of one quote
\* kind contains the other quote character.
C32_OneWordPerSpan ==
    (tpc \in {"none", "break"} /\ C_Spans.ok)
        => /\ tpc = "none"
           /\ Len(yielded) = Len(C_Spans.spans)
           /\ \A i \in 1..Len(yielded) : yielded[i] = C_Unquote(C_Spans.spans[i])

\* C33: a word produced from a quoted span keeps the surrounding quote characters
\* verbatim: on a line that is one quoted span around characters that are not
\* quotes, peek() and the first next() both return the whole line, quotes included.
C33_QuotesKept ==
    LET n == Len(tline) IN
    (/\ tpc # "idle"
     /\ n >= 3
     /\ IsQuote(tline[1])
     /\ tline[n] = tline[1]
     /\ \A k \in 2..(n - 1) : ~IsQuote(tline[k]))
        => /\ (peeked.some /\ yielded = <<>>) => peeked.tok = tline
           /\ yielded # <<>> => yielded[1] = tline
           /\ tpc # "loop" => yielded # <<>>

\* The words of a line by quote kind: a quote character opens a span that only the
\* same character closes, and a blank splits only outside spans. `open` tells
\* whether the line ends inside a span (an unterminated quote); the last word then
\* runs from the word holding the opening quote to the end of the line.
RECURSIVE C_KindSplit(_, _, _, _, _)
C_KindSplit(s, i, q, word, acc) ==
    IF i > Len(s)
    THEN [words |-> IF word = <<>> THEN acc ELSE Append(acc, word), open |-> q # ""]
    ELSE IF q = "" /\ IsQuote(s[i])
    THEN C_KindSplit(s, i + 1, s[i], Append(word, s[i]), acc)
    ELSE IF q # "" /\ s[i] = q
    THEN C_KindSplit(s, i + 1, "", Append(word, s[i]), acc)
    ELSE IF q = "" /\ s[i] = " "
    THEN C_KindSplit(s, i + 1, q, <<>>, IF word = <<>> THEN acc ELSE Append(acc, word))
    ELSE C_KindSplit(s, i + 1, q, Append(word, s[i]), acc)
C_KindWords == C_KindSplit(tline, 1, "", <<>>, <<>>)
\* The words compared without quote characters; a word of quote characters only
\* counts as no word.
C_Expected ==
    SelectSeq([i \in 1..Len(C_KindWords.words) |-> C_Unquote(C_KindWords.words[i])],
              LAMBDA w : w # <<>>)
\* Words separated by single blanks, none at the front.
C_SingleBlanks ==
    /\ tline # <<>> => tline[1] # " "
    /\ \A i \in 1..(Len(tline) - 1) : ~(tline[i] = " " /\ tline[i + 1] = " ")

\* C34: on a line with an unterminated quote (words separated by single blanks,
\* none of them `&&`) the Tokenizer raises no error: the words before the one that
\* holds the opening quote are returned, then everything from that word to the end
\* of the line as one word, and after that the tokenizer is empty.
C34_UnterminatedQuote ==
    (/\ tpc \in {"none", "break"}
     /\ C_KindWords.open
     /\ C_SingleBlanks
     /\ \A i \in 1..Len(C_Expected) : C_Expected[i] # <<"&", "&">>)
        => /\ tpc = "none"
           /\ yielded = C_Expected
           /\ ~tokenizer.some

\* The position of the first `&&` among words (one past the end when there is none).
C_FirstAnd(w) ==
    IF \E i \in 1..Len(w) : w[i] = <<"&", "&">>
    THEN CHOOSE i \in 1..Len(w) :
            w[i] = <<"&", "&">> /\ \A j \in 1..(i - 1) : w[j] # <<"&", "&">>
    ELSE Len(w) + 1

\* C40: on a line without quote characters, iterating until next() returns None
\* yields every word in order, however many blanks separate the words or start the
\* line: when next() has returned None every word was returned and is_empty() is
\* true, and get_args returns the words up to the first `&&`.
C40_IterationComplete ==
    LET w == C_Expected IN
    (/\ tpc \in {"none", "break"}
     /\ \A i \in 1..Len(tline) : ~IsQuote(tline[i]))
        => /\ got_args = SubSeq(w, 1, C_FirstAnd(w) - 1)
           /\ tpc = "break" => C_FirstAnd(w) <= Len(w)
           /\ tpc = "none" => (yielded = w /\ ~tokenizer.some)

\* C35: a tracked job's id, pid, command and args never change and its key is its
\* pid; its status changes only to Suspended by suspend_job on its pid and to
\* Running by resume_job; and an entry leaves the table only in a remove_job call
\* (the kill builtin) or in the removal pass of list_jobs.
C35_Step ==
    /\ \A p \in DOMAIN jobs' : jobs'[p].pid = p
    /\ \A p \in (DOMAIN jobs) \cap (DOMAIN jobs') :
          /\ jobs'[p].id = jobs[p].id
          /\ jobs'[p].command = jobs[p].command
          /\ jobs'[p].args = jobs[p].args
          /\ jobs'[p].status # jobs[p].status =>
                \/ /\ jobs'[p].status = "Suspended"
                   /\ last'.op = "suspend" /\ last'.arg = p
                \/ /\ jobs'[p].status = "Running"
                   /\ last'.op = "resume" /\ last'.pid = p
    /\ \A p \in (DOMAIN jobs) \ (DOMAIN jobs') :
          /\ last' # last
          /\ \/ last'.op = "remove" /\ last'.arg = p
             \/ last'.op = "list"
C35_JobIdentityStable == [][C35_Step]_vars

\* C36: no reachable Job Table holds a Completed job: every entry is Running or
\* Suspended, so list_jobs never meets the arm that returns early and always goes
\* on to its removal pass.
C36_NoCompletedJob ==
    /\ \A p \in DOMAIN jobs : jobs[p].status \in {"Running", "Suspended"}
    /\ ~ListReturnsEarly(jobs)
\* list_jobs has removed a job in its removal pass and left another in the table.
C36_Witness ==
    /\ last.op = "list"
    /\ last.arg >= 1
    /\ DOMAIN jobs # {}

\* C37: a list_jobs call leaves every job whose process still exists (running,
\* stopped or not yet reaped) in the table with the same id, pid, status, command
\* and args; it ends no process; and it changes neither the id counter nor the
\* foreground state (CURRENT_FOREGROUND_PID, foreground_info, the terminal's owner).
C37_Step ==
    (last'.op = "list" /\ last' # last)
        => /\ \A p \in DOMAIN jobs :
                 Exists(p) => (p \in DOMAIN jobs' /\ jobs'[p] = jobs[p])
           /\ procs' = procs
           /\ job_counter' = job_counter
           /\ <<fgPid, info, tty>>' = <<fgPid, info, tty>>
C38_Step ==
    /\ (pc = "prompt" /\ pc' = "returned" /\ cur'.kind = "fg" /\ ret' = "err_spawn")
          => /\ <<tty, fgPid, info, infoLock>>' = <<tty, fgPid, info, infoLock>>
             /\ <<jobs, job_counter>>' = <<jobs, job_counter>>
             /\ <<procs, pgid>>' = <<procs, pgid>>
    /\ (pc = "returned" /\ cur.kind = "fg" /\ ret = "err_spawn" /\ pc' # pc)
          => /\ pc' = "prompt"
             /\ <<tty, fgPid, info, jobs>>' = <<tty, fgPid, info, jobs>>
C38_SpawnFailureLeavesState == [][C38_Step]_vars
\* A foreground spawn has failed while a job is tracked, and the loop can still
\* read a statement.
C38_Witness ==
    /\ pc = "returned"
    /\ cur.kind = "fg"
    /\ ret = "err_spawn"
    /\ DOMAIN jobs # {}
    /\ nlines < MaxLines

\* C39: for every alias table and every typed program name, foreground alias
\* resolution returns at least one command, so spawn_foreground_job's `command[0]`
\* never indexes an empty list: the statement is executed without a panic, also
\* when the alias value is blank or only separators.
C39_Step ==
    (/\ xpc = "loop"
     /\ xi < Len(chain)
     /\ ~chain[xi + 1].background
     /\ chain[xi + 1].program # <<>>
     /\ <<xi, xpc>>' # <<xi, xpc>>)
        => /\ ResolveCommand(aliases, chain[xi + 1].program).cmds # <<>>
           /\ xpc' # "panicked"
C39_ResolutionNeverEmpty == [][C39_Step]_vars

====
